---- MODULE Spec2Model ----
(***************************************************************************)
(* Model of rdir's daemon: the membership state machine                    *)
(* (src/src/server/state/mod.rs) and the local control handler             *)
(* (src/src/server/mod.rs, Server::handle_client).                         *)
(***************************************************************************)
EXTENDS Integers, Sequences, FiniteSets, TLC

\* ------------------------------------------------------------------ bounds
\* PeerId is a u32 advanced with wrapping_add; the model keeps the wrap-around
\* on a narrower counter: ids are 0 .. PeerIdModulus-1.
PeerIdModulus == 2
\* Control connections whose handle_client task may be alive at once.
NumClients == 2
\* Capacity of the server-shutdown broadcast channel: broadcast(1).
ShutdownCapacity == 1
\* MAX_SHARE_NAME_LENGTH
MAX_SHARE_NAME_LENGTH == 60
\* NETWORK_PORT, u16::from_be_bytes(*b"rd")
NETWORK_PORT == 29284
\* Front-ends started at the same time.
NumFrontEnds == 2
\* Frames a NoiseStream writes in one direction, the handshake's included.
MaxFrames == 3
\* Calls of poll_read that serve only a part of the payload they hold.
MaxPartialReads == 1
\* LENGTH_FIELD_LEN: size_of::<u16>()
LENGTH_FIELD_LEN == 2
\* TAG_LEN
TAG_LEN == 16
\* MAX_MESSAGE_LEN: u16::MAX
MAX_MESSAGE_LEN == 65535
\* Length of a Curve25519 public key, the "25519" of Noise_NN_25519_AESGCM_BLAKE2b.
DHLEN == 32

\* PREFIX_LEN: PrefixType::BITS / 8
PREFIX_LEN == 2
\* MAX_FRAME_SIZE: PrefixType::MAX
MAX_FRAME_SIZE == 65535
\* Buffers written to a FramedStream.
MaxFramedWrites == 2

PeerIds == 0 .. (PeerIdModulus - 1)
NoPeer == PeerIdModulus
\* Socket addresses a Peer may carry.
SocketAddrs == {"1.1.1.1", "2.2.2.2"}
\* Common share names.
CommonShareNames == {"A", "B"}
NoName == "-"
\* Full share names ADDR/NAME of shares on a remote host.
RemotePeerAddrs == {"9.9.9.9"}
FullShareNames == [addr : RemotePeerAddrs, name : {"A"}]
NoFullName == [addr |-> "-", name |-> NoName]
\* Paths of local shares, and mount paths of remote shares.
\* A path is the sequence of its components; <<>> is the root.
SharePaths == {<<"1">>}
MountPaths == {<<"mnt">>}

\* ------------------------------------------------------------------ state
VARIABLES
    next_peer_id,      \* State.next_peer_id
    peers,             \* State.peers: PeerId -> Peer
    peers_by_socket,   \* State.peers_by_socket: SocketAddrV4 -> PeerId
    shares,            \* State.shares: CommonShareName -> Share
    remote_shares,     \* State.remote_shares: FullShareName -> RemoteShare
    debug_assertions,  \* whether the build keeps debug_assert!
    panicked,          \* a call panicked: the thread unwinds, nothing runs after
    shutdown_rx,       \* Server: messages queued on the shutdown broadcast channel
    clients,           \* Server: the handle_client tasks, by connection
    daemon,            \* Server::run: "running", or "exited" once it took the signal
    last,              \* what the daemon's last step did
    wire,              \* NoiseStream: the frames written to the inner stream, one direction
    inner_closed,      \* NoiseStream: the inner stream was closed by the writing end
    write_state,       \* NoiseStream (writing end): write_state and write_message_buffer
    read_state,        \* NoiseStream (reading end): read_state and the lengths it decoded
    io,                \* NoiseStream's callers: bytes accepted by poll_write, bytes got from poll_read
    framed,            \* FramedStream: the inner stream, the buffers written and the buffers read
    peer_tasks,        \* Server: the long_lived_peer_connection tasks, by PeerId
    front,             \* main: a front-end process, its command and the socket path it finds
    names,             \* a share name as text, what it parsed to and what that formats to
    hs,                \* NoiseStream::handshake on both ends of a connection, and the two pipes
    startup            \* main: front-ends started at the same time, and the socket path they share

stateVars == <<next_peer_id, peers, peers_by_socket, shares, remote_shares>>
daemonVars == <<shutdown_rx, clients, daemon, last>>
netVars == <<wire, inner_closed, write_state, read_state, io>>
framedVars == <<framed>>
serverVars == <<stateVars, debug_assertions, panicked, daemonVars, peer_tasks>>
frontVars == <<front>>
parseVars == <<names>>
hsVars == <<hs>>
startupVars == <<startup>>
commsVars == <<netVars, framedVars, frontVars, parseVars, hsVars, startupVars>>
vars == <<next_peer_id, peers, peers_by_socket, shares, remote_shares,
          debug_assertions, panicked, shutdown_rx, clients, daemon, last,
          wire, inner_closed, write_state, read_state, io, framed, peer_tasks,
          front, names, hs, startup>>

\* The State struct as one value.
State == [next_peer_id |-> next_peer_id, peers |-> peers,
          peers_by_socket |-> peers_by_socket, shares |-> shares,
          remote_shares |-> remote_shares]

\* State::default()
StateDefault == [next_peer_id |-> 0, peers |-> <<>>, peers_by_socket |-> <<>>,
                 shares |-> <<>>, remote_shares |-> <<>>]

\* ------------------------------------------------------------------ helpers
\* BTreeMap::remove / insert on a map kept as a function.
MapRemove(m, k) == [x \in (DOMAIN m) \ {k} |-> m[x]]
MapInsert(m, k, v) == [x \in (DOMAIN m) \cup {k} |-> IF x = k THEN v ELSE m[x]]

\* Iteration order of a BTreeSet<PeerId>: ascending.
RECURSIVE Ascending(_)
Ascending(S) ==
    IF S = {} THEN <<>>
    ELSE LET m == CHOOSE x \in S : \A y \in S : x <= y
         IN <<m>> \o Ascending(S \ {m})

\* Effects a call has outside State, in the order the code produces them.
NotifyEv(p, n) == [kind |-> "KickedFromShare", peer |-> p, name |-> n]
CancelEv(p) == [kind |-> "shutdown_tx", peer |-> p, name |-> NoName]
ServerShutdownEv == [kind |-> "server_shutdown", peer |-> NoPeer, name |-> NoName]

\* What a State method returns: the State it leaves, its result, its effects,
\* and the PeerId it returns (NoPeer when it returns none).
Outcome(s, r, e, i) == [st |-> s, res |-> r, ev |-> e, id |-> i]

\* Peer::new
PeerNew(address) ==
    [address |-> address, used_remote_shares |-> {}, used_shares |-> {},
     notification_open |-> TRUE]

\* Share::new
ShareNew(name, path) == [name |-> name, path |-> path, participants |-> {}]

\* new_peer_id! comes to an end only if some id is no key of peers.
HasFreePeerId(s) == DOMAIN s.peers # PeerIds

\* new_peer_id! that hands out next_peer_id without looking at the live peers.
new_peer_id_NoSkip(s) ==
    [id |-> s.next_peer_id, next |-> (s.next_peer_id + 1) % PeerIdModulus]

\* new_peer_id!: the first id from next_peer_id on (wrapping) that is no key of
\* peers; the counter ends one past it.  Diverges when every id is taken.
new_peer_id(s) ==
    LET k == CHOOSE k \in 0 .. (PeerIdModulus - 1) :
                /\ ((s.next_peer_id + k) % PeerIdModulus) \notin DOMAIN s.peers
                /\ \A j \in 0 .. (k - 1) :
                      ((s.next_peer_id + j) % PeerIdModulus) \in DOMAIN s.peers
    IN [id |-> (s.next_peer_id + k) % PeerIdModulus,
        next |-> (s.next_peer_id + k + 1) % PeerIdModulus]

\* The loop of new_peer_id!, one iteration per call: take next_peer_id as the
\* id, advance the counter with wrap-around, and stop if no live peer has the
\* id. After PeerIdModulus iterations without a free id the counter is back
\* where it started and the loop goes round for ever: NoPeer stands for that.
RECURSIVE new_peer_id_loop(_, _, _)
new_peer_id_loop(next, live, iterations) ==
    IF iterations = PeerIdModulus
    THEN [id |-> NoPeer, next |-> next, iterations |-> iterations]
    ELSE LET id == next
             advanced == (next + 1) % PeerIdModulus
         IN IF id \notin live
            THEN [id |-> id, next |-> advanced, iterations |-> iterations + 1]
            ELSE new_peer_id_loop(advanced, live, iterations + 1)

\* try_drop_peer that drops the peer whatever edges it still holds.
try_drop_peer_AnyEdges(s, ev, peer_id) ==
    [st |-> [s EXCEPT !.peers = MapRemove(s.peers, peer_id)],
     ev |-> Append(ev, CancelEv(peer_id))]

\* try_drop_peer that leaves a peer in place whatever its edge sets hold.
try_drop_peer_NeverDrops(s, ev, peer_id) == [st |-> s, ev |-> ev]

\* State::try_drop_peer
try_drop_peer(s, ev, peer_id) ==
    LET peer == s.peers[peer_id]
    IN IF Cardinality(peer.used_shares) + Cardinality(peer.used_remote_shares) = 0
       THEN [st |-> [s EXCEPT !.peers = MapRemove(s.peers, peer_id)],
             ev |-> Append(ev, CancelEv(peer_id))]
       ELSE [st |-> s, ev |-> ev]

\* should_server_close that never signals.
should_server_close_Never(s, ev) == ev

\* should_server_close that looks at the shares only.
should_server_close_SharesOnly(s, ev) ==
    IF DOMAIN s.shares = {} THEN Append(ev, ServerShutdownEv) ELSE ev

\* State::should_server_close
should_server_close(s, ev) ==
    IF DOMAIN s.peers = {} /\ DOMAIN s.shares = {}
    THEN Append(ev, ServerShutdownEv)
    ELSE ev

\* ------------------------------------------------------------------ State methods
\* new_peer_connected_to_share that draws the PeerId before it looks up the share.
new_peer_connected_to_share_EarlyId(s, peer, share_name) ==
    IF peer.address \in DOMAIN s.peers_by_socket
    THEN Outcome(s, "RepeatedPeer", <<>>, NoPeer)
    ELSE LET a == new_peer_id(s)
             s0 == [s EXCEPT !.next_peer_id = a.next]
         IN IF share_name \notin DOMAIN s.shares
            THEN Outcome(s0, "ShareDoesntExist", <<>>, NoPeer)
            ELSE LET p == [peer EXCEPT !.used_shares = @ \cup {share_name}]
                     s1 == [s0 EXCEPT !.peers_by_socket =
                                          MapInsert(@, peer.address, a.id)]
                     s2 == [s1 EXCEPT !.peers = MapInsert(@, a.id, p)]
                     s3 == [s2 EXCEPT !.shares[share_name].participants =
                                          @ \cup {a.id}]
                 IN Outcome(s3, "Ok", <<>>, a.id)

\* new_peer_connected_to_share that registers the peer whatever its address.
new_peer_connected_to_share_NoAddressCheck(s, peer, share_name) ==
    IF share_name \notin DOMAIN s.shares
    THEN Outcome(s, "ShareDoesntExist", <<>>, NoPeer)
    ELSE LET a == new_peer_id(s)
             p == [peer EXCEPT !.used_shares = @ \cup {share_name}]
             s1 == [s EXCEPT !.next_peer_id = a.next,
                             !.peers_by_socket = MapInsert(@, peer.address, a.id)]
             s2 == [s1 EXCEPT !.peers = MapInsert(@, a.id, p)]
             s3 == [s2 EXCEPT !.shares[share_name].participants = @ \cup {a.id}]
         IN Outcome(s3, "Ok", <<>>, a.id)

\* State::new_peer_connected_to_share
new_peer_connected_to_share(s, peer, share_name) ==
    IF peer.address \in DOMAIN s.peers_by_socket
    THEN Outcome(s, "RepeatedPeer", <<>>, NoPeer)
    ELSE IF share_name \notin DOMAIN s.shares
    THEN Outcome(s, "ShareDoesntExist", <<>>, NoPeer)
    ELSE LET a == new_peer_id(s)
             p == [peer EXCEPT !.used_shares = @ \cup {share_name}]
             s1 == [s EXCEPT !.next_peer_id = a.next,
                             !.peers_by_socket = MapInsert(@, peer.address, a.id)]
             s2 == [s1 EXCEPT !.peers = MapInsert(@, a.id, p)]
             s3 == [s2 EXCEPT !.shares[share_name].participants = @ \cup {a.id}]
         IN IF debug_assertions /\ a.id \in s.shares[share_name].participants
            THEN Outcome(s3, "Panic", <<>>, NoPeer)
            ELSE Outcome(s3, "Ok", <<>>, a.id)

\* State::peer_connected_to_share (peer_id is a live peer)
peer_connected_to_share(s, peer_id, share_name) ==
    IF share_name \notin DOMAIN s.shares
    THEN Outcome(s, "ShareDoesntExist", <<>>, NoPeer)
    ELSE LET s1 == [s EXCEPT !.peers[peer_id].used_shares = @ \cup {share_name}]
             s2 == [s1 EXCEPT !.shares[share_name].participants = @ \cup {peer_id}]
         IN IF debug_assertions /\ peer_id \in s.shares[share_name].participants
            THEN Outcome(s2, "Panic", <<>>, NoPeer)
            ELSE Outcome(s2, "Ok", <<>>, NoPeer)

\* peer_disconnected_from_share that removes the share's side of the edge only.
peer_disconnected_from_share_OneSided(s, peer_id, share_name) ==
    IF share_name \notin DOMAIN s.shares
    THEN Outcome(s, "ShareDoesntExist", <<>>, NoPeer)
    ELSE IF peer_id \notin s.shares[share_name].participants
    THEN Outcome(s, "PeerNotUsingShare", <<>>, NoPeer)
    ELSE Outcome([s EXCEPT !.shares[share_name].participants = @ \ {peer_id}],
                 "Ok", <<>>, NoPeer)

\* peer_disconnected_from_share that takes the edge for granted once the share
\* exists.
peer_disconnected_from_share_UncheckedEdge(s, peer_id, share_name) ==
    IF share_name \notin DOMAIN s.shares
    THEN Outcome(s, "ShareDoesntExist", <<>>, NoPeer)
    ELSE LET s1 == [s EXCEPT !.shares[share_name].participants = @ \ {peer_id}]
             s2 == [s1 EXCEPT !.peers[peer_id].used_shares = @ \ {share_name}]
             d == try_drop_peer(s2, <<>>, peer_id)
         IN Outcome(d.st, "Ok", d.ev, NoPeer)

\* State::peer_disconnected_from_share (peer_id is a live peer)
peer_disconnected_from_share(s, peer_id, share_name) ==
    IF share_name \notin DOMAIN s.shares
    THEN Outcome(s, "ShareDoesntExist", <<>>, NoPeer)
    ELSE IF peer_id \notin s.shares[share_name].participants
    THEN Outcome(s, "PeerNotUsingShare", <<>>, NoPeer)
    ELSE LET s1 == [s EXCEPT !.shares[share_name].participants = @ \ {peer_id}]
             s2 == [s1 EXCEPT !.peers[peer_id].used_shares = @ \ {share_name}]
             d == try_drop_peer(s2, <<>>, peer_id)
         IN IF debug_assertions /\ share_name \notin s.peers[peer_id].used_shares
            THEN Outcome(s2, "Panic", <<>>, NoPeer)
            ELSE Outcome(d.st, "Ok", d.ev, NoPeer)

\* kick_peer_from_share that runs try-drop before it sends the notification.
kick_peer_from_share_DropFirst(s, peer_id, share_name) ==
    IF share_name \notin DOMAIN s.shares
    THEN Outcome(s, "ShareDoesntExist", <<>>, NoPeer)
    ELSE IF peer_id \notin s.shares[share_name].participants
    THEN Outcome(s, "PeerNotUsingShare", <<>>, NoPeer)
    ELSE LET s1 == [s EXCEPT !.shares[share_name].participants = @ \ {peer_id}]
             s2 == [s1 EXCEPT !.peers[peer_id].used_shares = @ \ {share_name}]
             d == try_drop_peer(s2, <<>>, peer_id)
         IN Outcome(d.st, "Ok", Append(d.ev, NotifyEv(peer_id, share_name)), NoPeer)

\* State::kick_peer_from_share (peer_id is a live peer)
kick_peer_from_share(s, peer_id, share_name) ==
    IF share_name \notin DOMAIN s.shares
    THEN Outcome(s, "ShareDoesntExist", <<>>, NoPeer)
    ELSE IF peer_id \notin s.shares[share_name].participants
    THEN Outcome(s, "PeerNotUsingShare", <<>>, NoPeer)
    ELSE LET s1 == [s EXCEPT !.shares[share_name].participants = @ \ {peer_id}]
             s2 == [s1 EXCEPT !.peers[peer_id].used_shares = @ \ {share_name}]
             ev == <<NotifyEv(peer_id, share_name)>>
             d == try_drop_peer(s2, ev, peer_id)
         IN IF debug_assertions /\ share_name \notin s.peers[peer_id].used_shares
            THEN Outcome(s2, "Panic", <<>>, NoPeer)
            ELSE IF ~s.peers[peer_id].notification_open
            THEN Outcome(s2, "Panic", <<>>, NoPeer)
            ELSE Outcome(d.st, "Ok", d.ev, NoPeer)

\* add_share that inserts the share whether or not the name is taken.
add_share_Overwrite(s, share) ==
    Outcome([s EXCEPT !.shares = MapInsert(@, share.name, share)],
            "Ok", <<>>, NoPeer)

\* State::add_share
add_share(s, share) ==
    IF share.name \in DOMAIN s.shares
    THEN Outcome(s, "RepeatedShare", <<>>, NoPeer)
    ELSE Outcome([s EXCEPT !.shares = MapInsert(@, share.name, share)],
                 "Ok", <<>>, NoPeer)

\* The loop of State::remove_share over the removed share's participants, in
\* BTreeSet order; it stops where an assert or an unwrap panics.
RECURSIVE KickParticipants(_, _, _, _)
KickParticipants(s, ev, todo, name) ==
    IF todo = <<>> THEN [st |-> s, ev |-> ev, panic |-> FALSE]
    ELSE LET participant_id == Head(todo)
             peer == s.peers[participant_id]
             s1 == [s EXCEPT !.peers[participant_id].used_shares = @ \ {name}]
             d == try_drop_peer(s1, Append(ev, NotifyEv(participant_id, name)),
                                participant_id)
         IN IF name \notin peer.used_shares
            THEN [st |-> s1, ev |-> ev, panic |-> TRUE]
            ELSE IF ~peer.notification_open
            THEN [st |-> s1, ev |-> ev, panic |-> TRUE]
            ELSE KickParticipants(d.st, d.ev, Tail(todo), name)

\* remove_share that deletes the share and leaves its participants alone.
remove_share_NoKick(s, name) ==
    IF name \notin DOMAIN s.shares
    THEN Outcome(s, "ShareDoesntExist", <<>>, NoPeer)
    ELSE LET s1 == [s EXCEPT !.shares = MapRemove(@, name)]
         IN Outcome(s1, "Ok", should_server_close(s1, <<>>), NoPeer)

\* State::remove_share
remove_share(s, name) ==
    IF name \notin DOMAIN s.shares
    THEN Outcome(s, "ShareDoesntExist", <<>>, NoPeer)
    ELSE LET share == s.shares[name]
             s1 == [s EXCEPT !.shares = MapRemove(@, name)]
             k == KickParticipants(s1, <<>>, Ascending(share.participants), name)
         IN IF k.panic
            THEN Outcome(k.st, "Panic", k.ev, NoPeer)
            ELSE Outcome(k.st, "Ok", should_server_close(k.st, k.ev), NoPeer)

\* State::join_remote_share_new
join_remote_share_new(s, peer, name, mount_path) ==
    IF debug_assertions /\ peer.address \notin DOMAIN s.peers_by_socket
    THEN Outcome(s, "Panic", <<>>, NoPeer)
    ELSE IF name \in DOMAIN s.remote_shares
    THEN Outcome(s, "RepeatedRemoteShare", <<>>, NoPeer)
    ELSE LET a == new_peer_id(s)
             remote_share == [owner |-> a.id, name |-> name.name,
                              mount_path |-> mount_path]
             p == [peer EXCEPT !.used_remote_shares = @ \cup {name}]
             s1 == [s EXCEPT !.next_peer_id = a.next,
                             !.remote_shares = MapInsert(@, name, remote_share)]
             s2 == [s1 EXCEPT !.peers_by_socket = MapInsert(@, peer.address, a.id)]
             s3 == [s2 EXCEPT !.peers = MapInsert(@, a.id, p)]
         IN Outcome(s3, "Ok", <<>>, a.id)

\* join_remote_share that records the remote share and not the peer's edge.
join_remote_share_NoEdge(s, peer_id, name, mount_path) ==
    IF name \in DOMAIN s.remote_shares
    THEN Outcome(s, "RepeatedRemoteShare", <<>>, NoPeer)
    ELSE LET remote_share == [owner |-> peer_id, name |-> name.name,
                              mount_path |-> mount_path]
         IN Outcome([s EXCEPT !.remote_shares = MapInsert(@, name, remote_share)],
                    "Ok", <<>>, NoPeer)

\* State::join_remote_share (peer_id is a live peer)
join_remote_share(s, peer_id, name, mount_path) ==
    IF name \in DOMAIN s.remote_shares
    THEN Outcome(s, "RepeatedRemoteShare", <<>>, NoPeer)
    ELSE LET remote_share == [owner |-> peer_id, name |-> name.name,
                              mount_path |-> mount_path]
             s1 == [s EXCEPT !.remote_shares = MapInsert(@, name, remote_share)]
             s2 == [s1 EXCEPT !.peers[peer_id].used_remote_shares = @ \cup {name}]
         IN Outcome(s2, "Ok", <<>>, NoPeer)

\* exit_remote_share that looks the name up in remote_shares, whoever owns it.
exit_remote_share_AnyOwner(s, peer_id, remote_share_name) ==
    IF remote_share_name \notin DOMAIN s.remote_shares
    THEN Outcome(s, "NoSuchRemoteShare", <<>>, NoPeer)
    ELSE LET s1 == [s EXCEPT !.peers[peer_id].used_remote_shares =
                                   @ \ {remote_share_name}]
             s2 == [s1 EXCEPT !.remote_shares = MapRemove(@, remote_share_name)]
             d == try_drop_peer(s2, <<>>, peer_id)
         IN Outcome(d.st, "Ok", should_server_close(d.st, d.ev), NoPeer)

\* State::exit_remote_share (peer_id is a live peer)
exit_remote_share(s, peer_id, remote_share_name) ==
    IF remote_share_name \notin s.peers[peer_id].used_remote_shares
    THEN Outcome(s, "NoSuchRemoteShare", <<>>, NoPeer)
    ELSE LET s1 == [s EXCEPT !.peers[peer_id].used_remote_shares =
                                   @ \ {remote_share_name}]
             s2 == [s1 EXCEPT !.remote_shares = MapRemove(@, remote_share_name)]
             d == try_drop_peer(s2, <<>>, peer_id)
         IN IF remote_share_name \notin DOMAIN s.remote_shares
            THEN Outcome(s1, "Panic", <<>>, NoPeer)
            ELSE Outcome(d.st, "Ok", should_server_close(d.st, d.ev), NoPeer)

\* A long_lived_peer_connection task: where it is, and the messages queued on
\* the shutdown_rx it was given (the receiving end of the peer's shutdown_tx,
\* a bounded(1) channel).
PeerTask(pc, rx) == [pc |-> pc, shutdown_rx |-> rx]
NoTask == PeerTask("none", 0)

\* The try_send(()) calls on peers' shutdown_tx among the effects of a call,
\* as they reach the tasks that hold the receiving ends: a message is queued
\* when there is room, and the result of try_send is dropped.
RECURSIVE Deliver(_, _)
Deliver(tasks, ev) ==
    IF ev = <<>> THEN tasks
    ELSE LET e == Head(ev)
             to == IF e.kind = "shutdown_tx" /\ tasks[e.peer].pc # "none"
                      /\ tasks[e.peer].shutdown_rx < 1
                   THEN [tasks EXCEPT ![e.peer].shutdown_rx = @ + 1]
                   ELSE tasks
         IN Deliver(to, Tail(ev))

\* ------------------------------------------------------------------ State API
\* A State method ran on the State: the fields are what it left; a panic unwinds
\* the calling thread, and nothing runs on this State afterwards.
Commit(out) ==
    /\ next_peer_id' = out.st.next_peer_id
    /\ peers' = out.st.peers
    /\ peers_by_socket' = out.st.peers_by_socket
    /\ shares' = out.st.shares
    /\ remote_shares' = out.st.remote_shares
    /\ panicked' = (out.res = "Panic")
    /\ peer_tasks' = Deliver(peer_tasks, out.ev)
    /\ UNCHANGED <<debug_assertions, daemonVars, commsVars>>

StateInit ==
    /\ next_peer_id = StateDefault.next_peer_id
    /\ peers = StateDefault.peers
    /\ peers_by_socket = StateDefault.peers_by_socket
    /\ shares = StateDefault.shares
    /\ remote_shares = StateDefault.remote_shares
    /\ debug_assertions \in BOOLEAN
    /\ panicked = FALSE

AddShare ==
    \E name \in CommonShareNames, path \in SharePaths :
        /\ ~panicked
        /\ Commit(add_share(State, ShareNew(name, path)))

RemoveShare ==
    \E name \in CommonShareNames :
        /\ ~panicked
        /\ Commit(remove_share(State, name))

NewPeerConnectedToShare ==
    \E address \in SocketAddrs, name \in CommonShareNames :
        /\ ~panicked
        /\ HasFreePeerId(State)
        /\ Commit(new_peer_connected_to_share(State, PeerNew(address), name))

PeerConnectedToShare ==
    \E peer_id \in DOMAIN peers, name \in CommonShareNames :
        /\ ~panicked
        /\ Commit(peer_connected_to_share(State, peer_id, name))

PeerDisconnectedFromShare ==
    \E peer_id \in DOMAIN peers, name \in CommonShareNames :
        /\ ~panicked
        /\ Commit(peer_disconnected_from_share(State, peer_id, name))

KickPeerFromShare ==
    \E peer_id \in DOMAIN peers, name \in CommonShareNames :
        /\ ~panicked
        /\ Commit(kick_peer_from_share(State, peer_id, name))

JoinRemoteShareNew ==
    \E address \in SocketAddrs, full \in FullShareNames, path \in MountPaths :
        /\ ~panicked
        /\ HasFreePeerId(State)
        /\ Commit(join_remote_share_new(State, PeerNew(address), full, path))

JoinRemoteShare ==
    \E peer_id \in DOMAIN peers, full \in FullShareNames, path \in MountPaths :
        /\ ~panicked
        /\ Commit(join_remote_share(State, peer_id, full, path))

ExitRemoteShare ==
    \E peer_id \in DOMAIN peers, full \in FullShareNames :
        /\ ~panicked
        /\ Commit(exit_remote_share(State, peer_id, full))

\* The owner of a peer's notification receiver drops it (its task ended): the
\* channel of that peer's notification_tx is closed from then on.
NotificationRxDropped ==
    \E peer_id \in DOMAIN peers :
        /\ ~panicked
        /\ peers[peer_id].notification_open
        /\ peers' = [peers EXCEPT ![peer_id].notification_open = FALSE]
        /\ UNCHANGED <<next_peer_id, peers_by_socket, shares, remote_shares,
                       debug_assertions, panicked, daemonVars, commsVars, peer_tasks>>

\* Sender::try_broadcast on the server-shutdown channel: a message is queued
\* unless the channel is full; the caller drops the result.
try_broadcast(q) == IF q < ShutdownCapacity THEN q + 1 ELSE q

\* The channel after the try_broadcast calls among the effects of a step.
RECURSIVE Broadcasts(_, _)
Broadcasts(q, ev) ==
    IF ev = <<>> THEN q
    ELSE Broadcasts(IF Head(ev).kind = "server_shutdown" THEN try_broadcast(q) ELSE q,
                    Tail(ev))

\* ------------------------------------------------------------------ Server
ClientIds == 1 .. NumClients

\* A name of 61 characters, one more than MAX_SHARE_NAME_LENGTH.
LongName == "aaaaaaaaaaaaaaaaaaaaaaaaaaaaaaaaaaaaaaaaaaaaaaaaaaaaaaaaaaaaa"

\* Paths a Share request may carry: /A, the root, and one ending in LongName.
ClientPaths == {<<"A">>, <<>>, <<LongName>>}

\* ClientMessage, as decoded from the request frame.
Msg(kind, name, path) == [kind |-> kind, name |-> name, path |-> path]
ClientMessages ==
    {Msg(k, NoName, <<>>) : k \in {"ConnectLs", "ConnectMount", "ConnectUnmount",
                                   "Discover", "Kill", "Ls", "Ping", "ShareLs"}}
    \cup {Msg("ShareRemove", n, <<>>) : n \in CommonShareNames}
    \cup {Msg("ShareShare", n, path) :
            n \in CommonShareNames \cup {NoName}, path \in ClientPaths}

\* What arrives on a control connection: a message, nothing in time, or bytes
\* that do not decode.
Arrivals == ClientMessages \cup {Msg("Timeout", NoName, <<>>),
                                 Msg("Malformed", NoName, <<>>)}

\* Path::file_name: the last component, none for the root.
file_name(path) == IF path = <<>> THEN NoName ELSE path[Len(path)]

\* CommonShareName::from_str
CommonShareName_from_str(s) ==
    IF Len(s) > MAX_SHARE_NAME_LENGTH
    THEN [ok |-> FALSE, name |-> NoName]
    ELSE [ok |-> TRUE, name |-> s]

\* The name a ShareMessage::Share is stored under (handle_client): the given
\* one, else the one parsed from the path's file name.
ShareNameOf(msg) ==
    IF msg.name # NoName THEN [res |-> "Ok", name |-> msg.name]
    ELSE IF file_name(msg.path) = NoName
    THEN [res |-> "InvalidShareName", name |-> NoName]
    ELSE LET parsed == CommonShareName_from_str(file_name(msg.path))
         IN IF parsed.ok THEN [res |-> "Ok", name |-> parsed.name]
            ELSE [res |-> "CommonShareNameParse", name |-> NoName]

\* impl From<Result<(), E>> for ServerResponse
ResponseOf(res) == IF res = "Ok" THEN "Ok" ELSE "Err"

\* The match on the message in handle_client, up to the response it builds:
\* the State it leaves, the response (or "Panic" where the code reaches todo!()),
\* and the effects, a Kill's try_broadcast among them.
Dispatch(s, msg) ==
    CASE msg.kind = "ConnectLs" -> Outcome(s, "LsMountedShares", <<>>, NoPeer)
      [] msg.kind \in {"ConnectMount", "ConnectUnmount", "Discover"} ->
            Outcome(s, "Panic", <<>>, NoPeer)
      [] msg.kind = "Kill" -> Outcome(s, "Ok", <<ServerShutdownEv>>, NoPeer)
      [] msg.kind = "Ls" -> Outcome(s, "Status", <<>>, NoPeer)
      [] msg.kind = "Ping" -> Outcome(s, "Ok", <<>>, NoPeer)
      [] msg.kind = "ShareLs" -> Outcome(s, "LsShares", <<>>, NoPeer)
      [] msg.kind = "ShareRemove" ->
            LET out == remove_share(s, msg.name)
            IN Outcome(out.st, IF out.res = "Panic" THEN "Panic" ELSE ResponseOf(out.res),
                       out.ev, NoPeer)
      [] msg.kind = "ShareShare" ->
            LET n == ShareNameOf(msg)
                out == add_share(s, ShareNew(n.name, msg.path))
            IN IF n.res = "InvalidShareName" THEN Outcome(s, "Panic", <<>>, NoPeer)
               ELSE IF n.res # "Ok" THEN Outcome(s, "Err", <<>>, NoPeer)
               ELSE Outcome(out.st, ResponseOf(out.res), out.ev, NoPeer)

\* RefCell<State>: what a task does to it between two awaits, in order:
\* "borrow", "borrow_mut", and "drop" of the guard it holds.
\* handle_client that keeps the guard of ClientMessage::Ls over the write of
\* the response.
handle_client_borrows_LockOverWrite(msg) ==
    CASE msg.kind \in {"ConnectLs", "ShareLs"} -> <<"borrow", "drop">>
      [] msg.kind = "Ls" -> <<"borrow">>
      [] msg.kind = "ShareRemove" -> <<"borrow_mut", "drop">>
      [] msg.kind = "ShareShare" /\ ShareNameOf(msg).res = "Ok" ->
            <<"borrow_mut", "drop">>
      [] OTHER -> <<>>

\* handle_client from the decoded message to the await of the response write:
\* the guards of Connect Ls, Share Ls, Share Remove and Share Share are
\* temporaries of one statement, and Ls's `lock` is dropped at the end of its
\* match arm.
handle_client_borrows(msg) ==
    CASE msg.kind \in {"ConnectLs", "Ls", "ShareLs"} -> <<"borrow", "drop">>
      [] msg.kind = "ShareRemove" -> <<"borrow_mut", "drop">>
      [] msg.kind = "ShareShare" /\ ShareNameOf(msg).res = "Ok" ->
            <<"borrow_mut", "drop">>
      [] OTHER -> <<>>

\* handle_client after the write: self.state.borrow().should_server_close(..).
handle_client_end_borrows == <<"borrow", "drop">>

\* RefCell: the guard a task holds after `ops`, having held `held`, while the
\* other tasks hold `others`; borrow_mut panics when any guard is out, borrow
\* when a mutable one is.
RECURSIVE run_borrows(_, _, _)
run_borrows(ops, held, others) ==
    IF ops = <<>> THEN [held |-> held, panic |-> FALSE]
    ELSE CASE Head(ops) = "drop" -> run_borrows(Tail(ops), "none", others)
           [] Head(ops) = "borrow" ->
                IF held = "borrow_mut" \/ "borrow_mut" \in others
                THEN [held |-> held, panic |-> TRUE]
                ELSE run_borrows(Tail(ops), "borrow", others)
           [] Head(ops) = "borrow_mut" ->
                IF held # "none" \/ others # {}
                THEN [held |-> held, panic |-> TRUE]
                ELSE run_borrows(Tail(ops), "borrow_mut", others)

Idle == [pc |-> "none", req |-> "none", resp |-> "none", held |-> "none"]

\* What a daemon step did: the task ("accept", "handle_client", "handle_peer",
\* "run"), for handle_client the request, its response and the part of the
\* handler that ran ("read", "dispatch" or "end"), and the effects of the step
\* in order.
Did(task, req, resp, part, ev) ==
    [task |-> task, req |-> req, resp |-> resp, part |-> part, ev |-> ev]

DaemonInit ==
    /\ shutdown_rx = 0
    /\ clients = [c \in ClientIds |-> Idle]
    /\ daemon = "running"
    /\ last = Did("none", "none", "none", "none", <<>>)

Up == ~panicked /\ daemon = "running"

\* The guards the tasks other than c hold over their await.
OthersHeld(c) == {clients[d].held : d \in ClientIds \ {c}} \ {"none"}

\* accept_client: a control connection is accepted and its handler spawned.
AcceptClient ==
    \E c \in ClientIds :
        /\ Up
        /\ clients[c].pc = "none"
        /\ clients' = [clients EXCEPT ![c] = [Idle EXCEPT !.pc = "reading"]]
        /\ last' = Did("accept", "none", "none", "none", <<>>)
        /\ UNCHANGED <<stateVars, debug_assertions, panicked, shutdown_rx, daemon,
                       commsVars, peer_tasks>>

\* handle_client that evaluates the shutdown predicate also when no request
\* arrived in time or none decoded.
HandleClientRequest_ClosesOnError ==
    \E c \in ClientIds, msg \in Arrivals :
        /\ Up
        /\ clients[c].pc = "reading"
        /\ IF msg.kind \in {"Timeout", "Malformed"}
           THEN /\ clients' = [clients EXCEPT ![c] = Idle]
                /\ last' = Did("handle_client", msg.kind, "none", "read", <<>>)
                /\ shutdown_rx' = Broadcasts(shutdown_rx,
                                             should_server_close(State, <<>>))
                /\ UNCHANGED <<stateVars, panicked, peer_tasks>>
           ELSE LET out == Dispatch(State, msg)
                    b == run_borrows(handle_client_borrows(msg), "none",
                                     OthersHeld(c))
                IN /\ next_peer_id' = out.st.next_peer_id
                   /\ peers' = out.st.peers
                   /\ peers_by_socket' = out.st.peers_by_socket
                   /\ shares' = out.st.shares
                   /\ remote_shares' = out.st.remote_shares
                   /\ panicked' = (out.res = "Panic" \/ b.panic)
                   /\ shutdown_rx' = Broadcasts(shutdown_rx, out.ev)
                   /\ clients' = [clients EXCEPT ![c] =
                          [pc |-> "writing", req |-> msg.kind, resp |-> out.res,
                           held |-> b.held]]
                   /\ last' = Did("handle_client", msg.kind, out.res, "dispatch", out.ev)
                   /\ peer_tasks' = Deliver(peer_tasks, out.ev)
        /\ UNCHANGED <<debug_assertions, daemon, commsVars>>

\* handle_client from the read of the request to the await of the response
\* write: no request in time or none that decodes ends the task; otherwise the
\* request is dispatched on the State and the response is ready to be written.
HandleClientRequest ==
    \E c \in ClientIds, msg \in Arrivals :
        /\ Up
        /\ clients[c].pc = "reading"
        /\ IF msg.kind \in {"Timeout", "Malformed"}
           THEN /\ clients' = [clients EXCEPT ![c] = Idle]
                /\ last' = Did("handle_client", msg.kind, "none", "read", <<>>)
                /\ UNCHANGED <<stateVars, panicked, shutdown_rx, peer_tasks>>
           ELSE LET out == Dispatch(State, msg)
                    b == run_borrows(handle_client_borrows(msg), "none",
                                     OthersHeld(c))
                IN /\ next_peer_id' = out.st.next_peer_id
                   /\ peers' = out.st.peers
                   /\ peers_by_socket' = out.st.peers_by_socket
                   /\ shares' = out.st.shares
                   /\ remote_shares' = out.st.remote_shares
                   /\ panicked' = (out.res = "Panic" \/ b.panic)
                   /\ shutdown_rx' = Broadcasts(shutdown_rx, out.ev)
                   /\ clients' = [clients EXCEPT ![c] =
                          [pc |-> "writing", req |-> msg.kind, resp |-> out.res,
                           held |-> b.held]]
                   /\ last' = Did("handle_client", msg.kind, out.res, "dispatch", out.ev)
                   /\ peer_tasks' = Deliver(peer_tasks, out.ev)
        /\ UNCHANGED <<debug_assertions, daemon, commsVars>>

\* handle_client after the response write (whose result is dropped): the
\* closing should_server_close, and the task ends.
HandleClientEnd ==
    \E c \in ClientIds :
        /\ Up
        /\ clients[c].pc = "writing"
        /\ LET b == run_borrows(handle_client_end_borrows, clients[c].held,
                                OthersHeld(c))
               ev == IF b.panic THEN <<>> ELSE should_server_close(State, <<>>)
           IN /\ shutdown_rx' = Broadcasts(shutdown_rx, ev)
              /\ last' = Did("handle_client", clients[c].req, clients[c].resp, "end", ev)
              /\ panicked' = b.panic
        /\ clients' = [clients EXCEPT ![c] = Idle]
        /\ UNCHANGED <<stateVars, debug_assertions, daemon, commsVars, peer_tasks>>

\* handle_peer: a TCP connection is accepted and the task reaches todo!().
HandlePeer ==
    /\ Up
    /\ panicked' = TRUE
    /\ last' = Did("handle_peer", "none", "none", "none", <<>>)
    /\ UNCHANGED <<stateVars, debug_assertions, shutdown_rx, clients, daemon,
                   commsVars, peer_tasks>>

\* Server::run: shutdown_rx.recv() completes, block_on returns, the tasks are
\* polled no more, clean_up runs and the daemon exits.
RunShutdown ==
    /\ Up
    /\ shutdown_rx > 0
    /\ shutdown_rx' = shutdown_rx - 1
    /\ daemon' = "exited"
    /\ last' = Did("run", "none", "none", "none", <<>>)
    /\ UNCHANGED <<stateVars, debug_assertions, panicked, clients, commsVars, peer_tasks>>

DaemonNext ==
    \/ AcceptClient
    \/ HandleClientRequest
    \/ HandleClientEnd
    \/ HandlePeer
    \/ RunShutdown

\* ------------------------------------------------------------------ NoiseStream
\* One direction of a Noise connection: the NoiseStream that writes, the inner
\* stream (a reliable in-order byte pipe), and the NoiseStream of the other end
\* that reads.  The plaintext is a stream of bytes numbered from 0; a run of
\* them is [from, len], so that two runs are equal exactly when they hold the
\* same bytes of the stream.

\* `len as u16`
as_u16(n) == n % 65536

\* u16::to_be_bytes / to_le_bytes / from_be_bytes / from_le_bytes
to_be_bytes(n) == <<n \div 256, n % 256>>
to_le_bytes(n) == <<n % 256, n \div 256>>
from_be_bytes(b) == b[1] * 256 + b[2]
from_le_bytes(b) == b[1] + b[2] * 256

\* usize::min
Min(a, b) == IF a <= b THEN a ELSE b
Max(a, b) == IF a >= b THEN a ELSE b

\* The HandshakeState handed to NoiseStream::handshake: build_initiator or
\* build_responder.
HandshakeStates == {"initiator", "responder"}

\* HandshakeState::write_message(&[], ..) under Noise_NN: the initiator's
\* "-> e" is its ephemeral key; the responder's "<- e, ee" is its key and the
\* tag of the (empty) encrypted payload.
handshake_message_len(role) ==
    IF role = "initiator" THEN DHLEN ELSE DHLEN + TAG_LEN

\* TransportState::write_message: the ciphertext is the payload and its tag.
transport_message_len(payload_len) == payload_len + TAG_LEN

\* Lengths of the buffer handed to poll_write: empty, one byte, the size that
\* makes a 65535-byte message, and one byte more than fits a frame.
BufLens == {0, 1, MAX_MESSAGE_LEN - TAG_LEN, MAX_MESSAGE_LEN - TAG_LEN + 1}
\* No write is in progress.
NoBuf == -1

\* Lengths of the buffer handed to poll_read.
OutLens == {0, 1, MAX_MESSAGE_LEN}

\* How far the inner stream gets within a frame before it returns Pending:
\* nowhere, to the first byte, to the end of the prefix, to the last byte but
\* one, or to the end of the frame.
StopAt == {"Here", "FirstByte", "Prefix", "AllButOne", "All"}
Stop(at, offset, total) ==
    LET to == CASE at = "Here" -> offset
                [] at = "FirstByte" -> 1
                [] at = "Prefix" -> LENGTH_FIELD_LEN
                [] at = "AllButOne" -> total - 1
                [] at = "All" -> total
    IN Max(offset, Min(to, total))

\* A frame on the inner stream: the two prefix bytes and the number of message
\* bytes that follow, with the code that wrote it, the run of plaintext and the
\* nonce encrypted into it, and how many of its bytes the inner stream has
\* taken so far.
Frame(by, prefix, message_len, from, payload_len, nonce, written) ==
    [by |-> by, prefix |-> prefix, message_len |-> message_len,
     from |-> from, payload_len |-> payload_len, nonce |-> nonce,
     written |-> written]

\* The writing end: write_state (before it exists the handshake has yet to
\* write) with WritingMessage's start and payload_len, write_message_buffer as
\* prefix, message length and the plaintext run in it, the sending nonce of
\* transport, and whether write_clean_waker holds a waker.
Writer(state, start, payload_len, prefix, message_len, from, nonce, waker) ==
    [state |-> state, start |-> start, payload_len |-> payload_len,
     prefix |-> prefix, message_len |-> message_len, from |-> from,
     nonce |-> nonce, write_clean_waker |-> waker]

\* The reading end: read_state with the offset of ReadingLen, ReadingMessage
\* or ServingPayload and ReadingLen's bytes, read_message_buffer's length,
\* the plaintext run in read_payload_buffer, the receiving nonce of transport,
\* the frames of the inner stream read to their end, and the message lengths
\* decoded from the prefixes read so far.
Reader(state, offset, buf, message_len, payload, nonce, frames, lens) ==
    [state |-> state, offset |-> offset, buf |-> buf,
     message_len |-> message_len, payload |-> payload, nonce |-> nonce,
     frames |-> frames, lens |-> lens]

NoPayload == [from |-> 0, len |-> 0]

\* The bytes a caller got from poll_read, in order, as runs of the plaintext
\* stream: a run that continues the last one extends it.
Concat(out, from, len) ==
    IF len = 0 THEN out
    ELSE IF out # <<>> /\ out[Len(out)].from + out[Len(out)].len = from
         THEN [out EXCEPT ![Len(out)].len = @ + len]
         ELSE Append(out, [from |-> from, len |-> len])

NetInit ==
    /\ wire = <<>>
    /\ inner_closed = FALSE
    /\ write_state = Writer("Handshake", 0, 0, <<>>, 0, 0, 0, FALSE)
    /\ read_state = Reader("Handshake", 0, <<>>, 0, NoPayload, 0, 0, <<>>)
    /\ io = [accepted |-> 0, write_buf |-> NoBuf, out |-> <<>>, partial |-> 0,
             unflushed |-> FALSE]

\* NoiseStream::handshake on the writing end, is_my_turn: the handshake message
\* goes out behind its length prefix, and the stream enters transport mode.
NoiseHandshakeWrite ==
    \E state \in HandshakeStates :
        /\ write_state.state = "Handshake"
        /\ LET len == handshake_message_len(state)
               prefix == to_be_bytes(as_u16(len))
           IN wire' = Append(wire, Frame("handshake", prefix, len, 0, 0, 0,
                                         LENGTH_FIELD_LEN + len))
        /\ write_state' = Writer("Idle", 0, 0, <<>>, 0, 0, 0, FALSE)
        /\ UNCHANGED <<serverVars, framedVars, frontVars, parseVars, hsVars,
                       startupVars,
                       read_state, inner_closed, io>>

\* NoiseStream::handshake on the reading end, not its turn: read_exact of the
\* prefix, then of as many message bytes as the prefix says.
NoiseHandshakeRead ==
    /\ read_state.state = "Handshake"
    /\ Len(wire) >= 1
    /\ LET len == from_be_bytes(wire[1].prefix)
       IN /\ len = wire[1].message_len
          /\ read_state' = Reader("Idle", 0, <<>>, 0, NoPayload, 0, 1, <<len>>)
    /\ UNCHANGED <<serverVars, framedVars, frontVars, parseVars, hsVars,
                       startupVars, wire,
                   write_state, inner_closed, io>>

\* poll_write, WriteState::Idle: the first payload_len bytes of buf are
\* encrypted into write_message_buffer behind their length prefix.
write_message(w, buf_len, from) ==
    LET payload_len == Min(buf_len, MAX_MESSAGE_LEN - TAG_LEN)
        message_len == transport_message_len(payload_len)
    IN Writer("WritingMessage", 0, payload_len,
              to_le_bytes(as_u16(message_len)), message_len, from,
              w.nonce + 1, w.write_clean_waker)

\* poll_write that encrypts buf again whenever it is polled, a frame in
\* flight or not.
poll_write_Reencrypts(w, buf_len, from, at) ==
    IF w.state = "ShuttingDown"
    THEN [w |-> w, res |-> "BrokenPipe", n |-> 0, sent |-> 0, b |-> w,
          woke |-> FALSE]
    ELSE LET b == write_message(w, buf_len, from)
             total == LENGTH_FIELD_LEN + b.message_len
             start == Stop(at, b.start, total)
         IN IF start = total
            THEN [w |-> Writer("Idle", 0, 0, <<>>, 0, 0, b.nonce, FALSE),
                  res |-> "Ok", n |-> b.payload_len, sent |-> start - b.start,
                  b |-> b, woke |-> b.write_clean_waker]
            ELSE [w |-> [b EXCEPT !.start = start],
                  res |-> "Pending", n |-> 0, sent |-> start - b.start,
                  b |-> b, woke |-> FALSE]

\* AsyncWrite::poll_write, one call, on a buffer of buf_len bytes that starts
\* at byte `from` of the plaintext: the loop runs until the inner stream
\* returns Pending, having taken the bytes up to the stop, or until the frame
\* is complete.  `b` is write_message_buffer as the call leaves it and `sent`
\* the bytes the inner stream took during the call.
poll_write(w, buf_len, from, at) ==
    IF w.state = "ShuttingDown"
    THEN [w |-> w, res |-> "BrokenPipe", n |-> 0, sent |-> 0, b |-> w,
          woke |-> FALSE]
    ELSE LET b == IF w.state = "Idle" THEN write_message(w, buf_len, from)
                  ELSE w
             total == LENGTH_FIELD_LEN + b.message_len
             start == Stop(at, b.start, total)
         IN IF start = total
            THEN [w |-> Writer("Idle", 0, 0, <<>>, 0, 0, b.nonce, FALSE),
                  res |-> "Ok", n |-> b.payload_len, sent |-> start - b.start,
                  b |-> b, woke |-> b.write_clean_waker]
            ELSE [w |-> [b EXCEPT !.start = start],
                  res |-> "Pending", n |-> 0, sent |-> start - b.start,
                  b |-> b, woke |-> FALSE]

\* A caller's write: a new one hands over the next bytes of the plaintext, and
\* one that got Pending is polled again with the same buffer.
PollWrite ==
    \E buf_len \in (IF io.write_buf = NoBuf THEN BufLens ELSE {io.write_buf}),
       at \in StopAt :
        /\ write_state.state \in {"Idle", "WritingMessage", "ShuttingDown"}
        /\ write_state.state = "Idle" => Len(wire) < MaxFrames
        /\ LET o == poll_write(write_state, buf_len, io.accepted, at)
           IN /\ write_state' = o.w
              /\ wire' =
                    IF o.sent = 0 THEN wire
                    ELSE IF o.b.start = 0
                         THEN Append(wire,
                                     Frame("poll_write", o.b.prefix,
                                           o.b.message_len, o.b.from,
                                           o.b.payload_len, o.b.nonce - 1,
                                           o.sent))
                         ELSE [wire EXCEPT ![Len(wire)].written = @ + o.sent]
              /\ io' = [io EXCEPT
                          !.accepted = IF o.res = "Ok" THEN @ + o.n ELSE @,
                          !.write_buf = IF o.res = "Pending" THEN buf_len
                                        ELSE NoBuf,
                          !.unflushed = @ \/ o.sent > 0]
        /\ UNCHANGED <<serverVars, framedVars, frontVars, parseVars, hsVars,
                       startupVars,
                       read_state, inner_closed>>

\* AsyncWrite::poll_flush: Ready in Idle and ShuttingDown, the inner stream
\* untouched; with a frame in flight the waker is stored, the inner stream's
\* poll_flush is called (`inner`), and the call returns Pending whatever the
\* inner flush returned.
poll_flush(w) ==
    IF w.state \in {"ShuttingDown", "Idle"}
    THEN [w |-> w, res |-> "Ok", inner |-> FALSE]
    ELSE [w |-> [w EXCEPT !.write_clean_waker = TRUE], res |-> "Pending",
          inner |-> TRUE]

\* A caller's flush; io.unflushed says that the inner stream holds bytes it
\* took since its own poll_flush last returned Ready.
PollFlush ==
    \E inner \in {"Pending", "Ready"} :
        /\ write_state.state \in {"Idle", "WritingMessage", "ShuttingDown"}
        /\ LET o == poll_flush(write_state)
           IN /\ write_state' = o.w
              /\ io' = [io EXCEPT !.unflushed =
                                    IF o.inner /\ inner = "Ready" THEN FALSE
                                    ELSE @]
        /\ UNCHANGED <<serverVars, framedVars, frontVars, parseVars, hsVars,
                       startupVars, wire,
                       read_state, inner_closed>>

\* AsyncWrite::poll_close: the stored waker is woken, the state becomes
\* ShuttingDown whatever it was, and the inner stream's poll_close is called.
poll_close(w) ==
    [w |-> [w EXCEPT !.state = "ShuttingDown", !.start = 0, !.payload_len = 0,
                     !.write_clean_waker = FALSE],
     woke |-> w.write_clean_waker]

PollClose ==
    \E inner \in {"Pending", "Ready"} :
        /\ write_state.state \in {"Idle", "WritingMessage", "ShuttingDown"}
        /\ write_state' = poll_close(write_state).w
        /\ inner_closed' = (inner_closed \/ inner = "Ready")
        /\ io' = [io EXCEPT !.write_buf = NoBuf,
                            !.unflushed = IF inner = "Ready" THEN FALSE ELSE @]
        /\ UNCHANGED <<serverVars, framedVars, frontVars, parseVars, hsVars,
                       startupVars, wire,
                       read_state>>

\* TransportState::read_message on a whole message of the inner stream: it
\* decrypts when the message is the ciphertext of a transport frame, the
\* message length read is the frame's, and the nonces agree.
read_message(r, frame) ==
    /\ frame.by = "poll_write"
    /\ r.message_len = frame.message_len
    /\ r.message_len >= TAG_LEN
    /\ r.nonce = frame.nonce

\* serve_payload that copies from the start of read_payload_buffer whatever
\* the offset ServingPayload holds.
serve_payload_FromStart(r, out_len) ==
    LET available == r.payload.len - r.offset
        to_copy == Min(available, out_len)
    IN [r |-> IF to_copy = available
              THEN [r EXCEPT !.state = "Idle", !.offset = 0, !.buf = <<>>]
              ELSE [r EXCEPT !.offset = @ + to_copy],
        res |-> "Ok", n |-> to_copy, from |-> r.payload.from]

\* poll_read, ReadState::ServingPayload: copy what fits into `out`.
serve_payload(r, out_len) ==
    LET available == r.payload.len - r.offset
        to_copy == Min(available, out_len)
    IN [r |-> IF to_copy = available
              THEN [r EXCEPT !.state = "Idle", !.offset = 0, !.buf = <<>>]
              ELSE [r EXCEPT !.offset = @ + to_copy],
        res |-> "Ok", n |-> to_copy, from |-> r.payload.from + r.offset]

\* AsyncRead::poll_read, one call, with `frame` the frame of the inner stream
\* the reader is in (written 0 when the inner stream holds nothing further):
\* the loop runs until the inner stream returns Pending, having handed over the
\* bytes up to the stop, or returns 0 bytes (`eof`: it does so once it is
\* closed and drained), or until a payload is served.
poll_read(r, out_len, frame, at, eof) ==
    IF r.state = "ShuttingDown"
    THEN [r |-> r, res |-> "Ok", n |-> 0, from |-> 0]
    ELSE IF r.state = "ServingPayload"
    THEN serve_payload(r, out_len)
    ELSE LET have == frame.written
             at0 == CASE r.state = "Idle" -> 0
                      [] r.state = "ReadingLen" -> r.offset
                      [] r.state = "ReadingMessage" ->
                            LENGTH_FIELD_LEN + r.offset
             known == r.state = "ReadingMessage"
             \* the bytes the inner stream hands over during this call
             reach == Min(have, Stop(at, at0, LENGTH_FIELD_LEN + frame.message_len))
             buf == SubSeq(frame.prefix, 1, Min(reach, LENGTH_FIELD_LEN))
             decoded == reach >= LENGTH_FIELD_LEN
             message_len == IF known THEN r.message_len
                            ELSE IF decoded THEN from_le_bytes(buf)
                            ELSE 0
             lens == IF decoded /\ ~known THEN Append(r.lens, message_len)
                     ELSE r.lens
             got == IF decoded
                    THEN Min(reach, LENGTH_FIELD_LEN + message_len)
                    ELSE reach
             whole == decoded /\ got = LENGTH_FIELD_LEN + message_len
             reading ==
                IF decoded
                THEN [r EXCEPT !.state = "ReadingMessage",
                               !.offset = got - LENGTH_FIELD_LEN,
                               !.buf = <<>>, !.message_len = message_len,
                               !.lens = lens]
                ELSE [r EXCEPT !.state = "ReadingLen", !.offset = got,
                               !.buf = buf]
         IN IF whole
            THEN IF read_message(reading, frame)
                 THEN serve_payload(
                         [reading EXCEPT
                             !.state = "ServingPayload", !.offset = 0,
                             !.payload = [from |-> frame.from,
                                          len |-> reading.message_len - TAG_LEN],
                             !.nonce = @ + 1, !.frames = @ + 1],
                         out_len)
                 ELSE [r |-> reading, res |-> "InvalidData", n |-> 0,
                       from |-> 0]
            ELSE IF eof /\ got = have
                 THEN [r |-> [reading EXCEPT !.state = "ShuttingDown"],
                       res |-> "Ok", n |-> 0, from |-> 0]
                 ELSE [r |-> reading, res |-> "Pending", n |-> 0, from |-> 0]

\* The bytes of its frame the reading end has taken from the inner stream.
read_position(r) ==
    CASE r.state = "ReadingLen" -> r.offset
      [] r.state = "ReadingMessage" -> LENGTH_FIELD_LEN + r.offset
      [] OTHER -> 0

\* A poll_read that forgets, when the inner stream returns Pending, the bytes
\* it has gathered.
read_pending_Restarts(r, path) ==
    [r |-> [r EXCEPT !.offset = 0, !.buf = <<>>], res |-> "Pending", n |-> 0,
     from |-> 0, path |-> path]

\* poll_read, `ready!` on a Pending inner stream: the call returns with
\* read_state, and so the bytes gathered, as they are.
read_pending(r, path) ==
    [r |-> r, res |-> "Pending", n |-> 0, from |-> 0, path |-> path]

\* The loop of AsyncRead::poll_read, one iteration at a time, with `reach` the
\* byte of the frame up to which the inner stream hands bytes over during the
\* call: `path` collects the states the loop moves read_state to.
RECURSIVE poll_read_loop(_, _, _, _, _, _)
poll_read_loop(r, out_len, frame, reach, eof, path) ==
    CASE r.state = "ShuttingDown" ->
            [r |-> r, res |-> "Ok", n |-> 0, from |-> 0, path |-> path]
      [] r.state = "Idle" ->
            poll_read_loop([r EXCEPT !.state = "ReadingLen", !.offset = 0,
                                     !.buf = <<>>],
                           out_len, frame, reach, eof, Append(path, "ReadingLen"))
      [] r.state = "ReadingLen" ->
            IF r.offset = LENGTH_FIELD_LEN
            THEN LET message_len == from_le_bytes(r.buf)
                 IN poll_read_loop(
                        [r EXCEPT !.state = "ReadingMessage", !.offset = 0,
                                  !.buf = <<>>, !.message_len = message_len,
                                  !.lens = Append(@, message_len)],
                        out_len, frame, reach, eof,
                        Append(path, "ReadingMessage"))
            ELSE LET n == Min(reach, LENGTH_FIELD_LEN) - r.offset
                 IN IF n > 0
                    THEN poll_read_loop(
                            [r EXCEPT !.offset = @ + n,
                                      !.buf = SubSeq(frame.prefix, 1, r.offset + n)],
                            out_len, frame, reach, eof, path)
                    ELSE IF eof /\ read_position(r) = frame.written
                    THEN poll_read_loop([r EXCEPT !.state = "ShuttingDown"],
                                        out_len, frame, reach, eof,
                                        Append(path, "ShuttingDown"))
                    ELSE read_pending(r, path)
      [] r.state = "ReadingMessage" ->
            IF r.offset = r.message_len
            THEN IF read_message(r, frame)
                 THEN poll_read_loop(
                        [r EXCEPT !.state = "ServingPayload", !.offset = 0,
                                  !.payload = [from |-> frame.from,
                                               len |-> r.message_len - TAG_LEN],
                                  !.nonce = @ + 1, !.frames = @ + 1],
                        out_len, frame, reach, eof,
                        Append(path, "ServingPayload"))
                 ELSE [r |-> r, res |-> "InvalidData", n |-> 0, from |-> 0,
                       path |-> path]
            ELSE LET n == Min(reach, LENGTH_FIELD_LEN + r.message_len)
                            - read_position(r)
                 IN IF n > 0
                    THEN poll_read_loop([r EXCEPT !.offset = @ + n], out_len,
                                        frame, reach, eof, path)
                    ELSE IF eof /\ read_position(r) = frame.written
                    THEN poll_read_loop([r EXCEPT !.state = "ShuttingDown"],
                                        out_len, frame, reach, eof,
                                        Append(path, "ShuttingDown"))
                    ELSE read_pending(r, path)
      [] r.state = "ServingPayload" ->
            LET o == serve_payload(r, out_len)
            IN [r |-> o.r, res |-> o.res, n |-> o.n, from |-> o.from,
                path |-> IF o.r.state = "Idle" THEN Append(path, "Idle")
                         ELSE path]

\* The frame of the inner stream the reading end is in.
NoFrame == Frame("none", <<0, 0>>, 0, 0, 0, 0, 0)
CurrentFrame ==
    IF read_state.frames < Len(wire) THEN wire[read_state.frames + 1]
    ELSE NoFrame

\* One poll_read call on the reading end as it is, iteration by iteration.
PollReadLoop(out_len, at, eof) ==
    LET frame == CurrentFrame
        at0 == read_position(read_state)
        reach == Min(frame.written,
                     Stop(at, at0, LENGTH_FIELD_LEN + frame.message_len))
    IN poll_read_loop(read_state, out_len, frame, reach, eof, <<read_state.state>>)

\* A caller's read into a buffer of out_len bytes.
PollRead ==
    \E out_len \in OutLens, at \in StopAt,
       eof \in (IF inner_closed THEN BOOLEAN ELSE {FALSE}) :
        /\ read_state.state \in {"Idle", "ReadingLen", "ReadingMessage",
                                 "ServingPayload", "ShuttingDown"}
        /\ LET o == PollReadLoop(out_len, at, eof)
               part == o.r.state = "ServingPayload" /\ o.n > 0
           IN /\ part => io.partial < MaxPartialReads
              /\ read_state' = o.r
              /\ io' = [io EXCEPT !.out = Concat(@, o.from, o.n),
                                  !.partial = IF part THEN @ + 1 ELSE @]
        /\ UNCHANGED <<serverVars, framedVars, frontVars, parseVars, hsVars,
                       startupVars, wire,
                       write_state, inner_closed>>

NetNext ==
    \/ NoiseHandshakeWrite
    \/ NoiseHandshakeRead
    \/ PollWrite
    \/ PollFlush
    \/ PollClose
    \/ PollRead

\* ------------------------------------------------------------------ FramedStream
\* Byte strings (Vec<u8>, &[u8], the bytes in a pipe) as runs of equal bytes:
\* <<[b |-> 0, n |-> 3], [b |-> 7, n |-> 1]>> is 0 0 0 7.  No run is empty and
\* adjacent runs differ in their byte, so equal strings are equal values.
Bytes(b, n) == IF n = 0 THEN <<>> ELSE <<[b |-> b, n |-> n]>>

\* chain / extend: one string after the other.
Chain(s, t) ==
    IF s = <<>> THEN t
    ELSE IF t = <<>> THEN s
    ELSE IF s[Len(s)].b = Head(t).b
         THEN SubSeq(s, 1, Len(s) - 1)
                  \o <<[b |-> Head(t).b, n |-> s[Len(s)].n + Head(t).n]>>
                  \o Tail(t)
         ELSE s \o t

\* The string of a sequence of single bytes.
RECURSIVE Pack(_)
Pack(bs) == IF bs = <<>> THEN <<>> ELSE Chain(Bytes(Head(bs), 1), Pack(Tail(bs)))

\* The single bytes of a string.
RECURSIVE Unpack(_)
Unpack(s) ==
    IF s = <<>> THEN <<>>
    ELSE <<Head(s).b>>
            \o Unpack(IF Head(s).n = 1 THEN Tail(s)
                      ELSE <<[Head(s) EXCEPT !.n = @ - 1]>> \o Tail(s))

\* buf.len()
RECURSIVE ByteLen(_)
ByteLen(s) == IF s = <<>> THEN 0 ELSE Head(s).n + ByteLen(Tail(s))

\* The first n bytes of a string, and what follows them.
RECURSIVE Take(_, _)
Take(s, n) ==
    IF n = 0 \/ s = <<>> THEN <<>>
    ELSE IF Head(s).n <= n
         THEN Chain(<<Head(s)>>, Take(Tail(s), n - Head(s).n))
         ELSE <<[b |-> Head(s).b, n |-> n]>>
RECURSIVE Drop(_, _)
Drop(s, n) ==
    IF n = 0 \/ s = <<>> THEN s
    ELSE IF Head(s).n <= n THEN Drop(Tail(s), n - Head(s).n)
         ELSE <<[Head(s) EXCEPT !.n = @ - n]>> \o Tail(s)

\* Buffers handed to FramedStream::write: of length 0, 1, 2, 255, 256, 65535
\* and 65536, filled with one byte value, or a 1 followed by zeroes.
FramedLens == {0, 1, PREFIX_LEN, 255, 256, MAX_FRAME_SIZE, MAX_FRAME_SIZE + 1}
FramedBufs ==
    {Bytes(b, n) : b \in {0, 255}, n \in FramedLens}
        \cup {Chain(Bytes(1, 1), Bytes(0, n - 1)) : n \in FramedLens \ {0}}

\* FramedStream::write(buf) on the inner stream `stream`: the length is
\* asserted, then the prefix chained with buf is copied to the stream.
FramedStream_write(stream, buf) ==
    LET len == ByteLen(buf)
    IN IF ~(len <= MAX_FRAME_SIZE)
       THEN [stream |-> stream, res |-> "panic"]
       ELSE LET prefix == Pack(to_be_bytes(as_u16(len)))
                chain == Chain(prefix, buf)
            IN [stream |-> Chain(stream, chain), res |-> "Ok"]

\* FramedStream::read that decodes the prefix low byte first.
FramedStream_read_LittleEndian(stream) ==
    IF ByteLen(stream) < PREFIX_LEN
    THEN [stream |-> stream, res |-> "Pending", buf |-> <<>>]
    ELSE LET prefix_buf == Unpack(Take(stream, PREFIX_LEN))
             len == from_le_bytes(prefix_buf)
             rest == Drop(stream, PREFIX_LEN)
         IN IF ByteLen(rest) < len
            THEN [stream |-> stream, res |-> "Pending", buf |-> <<>>]
            ELSE [stream |-> Drop(rest, len), res |-> "Ok",
                  buf |-> Take(rest, len)]

\* FramedStream::read on the inner stream: read_exact of the prefix, then of
\* as many bytes as the prefix says.  With fewer bytes in the stream read_exact
\* waits for them ("Pending").
FramedStream_read(stream) ==
    IF ByteLen(stream) < PREFIX_LEN
    THEN [stream |-> stream, res |-> "Pending", buf |-> <<>>]
    ELSE LET prefix_buf == Unpack(Take(stream, PREFIX_LEN))
             len == from_be_bytes(prefix_buf)
             rest == Drop(stream, PREFIX_LEN)
         IN IF ByteLen(rest) < len
            THEN [stream |-> stream, res |-> "Pending", buf |-> <<>>]
            ELSE [stream |-> Drop(rest, len), res |-> "Ok",
                  buf |-> Take(rest, len)]

FramedInit ==
    framed = [stream |-> <<>>, written |-> <<>>, read |-> <<>>,
              panicked |-> FALSE]

\* A task writes a buffer; a failed assertion unwinds it.
FramedWrite ==
    \E buf \in FramedBufs :
        /\ ~framed.panicked
        /\ Len(framed.written) < MaxFramedWrites
        /\ LET o == FramedStream_write(framed.stream, buf)
           IN framed' = [framed EXCEPT
                            !.stream = o.stream,
                            !.written = IF o.res = "Ok" THEN Append(@, buf)
                                        ELSE @,
                            !.panicked = (o.res = "panic")]
        /\ UNCHANGED <<serverVars, netVars, frontVars, parseVars, hsVars,
                   startupVars>>

\* The other end reads a frame once its bytes are in the stream.
FramedRead ==
    /\ LET o == FramedStream_read(framed.stream)
       IN /\ o.res = "Ok"
          /\ framed' = [framed EXCEPT !.stream = o.stream,
                                      !.read = Append(@, o.buf)]
    /\ UNCHANGED <<serverVars, netVars, frontVars, parseVars, hsVars,
                   startupVars>>

FramedNext ==
    \/ FramedWrite
    \/ FramedRead

\* ------------------------------------------------------------------ peer tasks
PeerTaskInit == peer_tasks = [p \in PeerIds |-> NoTask]

\* long_lived_peer_connection(peer_id, shutdown_rx, notification_rx), spawned
\* for a registered peer: it logs and awaits Timer::never(), which never
\* completes; neither receiver is polled.
LongLivedPeerConnection ==
    \E peer_id \in DOMAIN peers :
        /\ ~panicked
        /\ peer_tasks[peer_id].pc = "none"
        /\ peer_tasks' = [peer_tasks EXCEPT ![peer_id] = PeerTask("Timer::never", 0)]
        /\ UNCHANGED <<stateVars, debug_assertions, panicked, daemonVars, commsVars>>

\* Peers of local shares coming and going, each with its long-lived task.
PeerNext ==
    \/ AddShare
    \/ NewPeerConnectedToShare
    \/ PeerConnectedToShare
    \/ PeerDisconnectedFromShare
    \/ KickPeerFromShare
    \/ LongLivedPeerConnection

\* ------------------------------------------------- NoiseStream::handshake
\* Noise_NN has two handshake messages: "-> e" and "<- e, ee".
HandshakeMessages == 2

Peer(role) == IF role = "initiator" THEN "responder" ELSE "initiator"

\* HandshakeState::is_my_turn that is false on both ends.
is_my_turn_Never(role, index) == FALSE

\* HandshakeState::is_my_turn: the initiator writes the even messages, the
\* responder the odd ones.
is_my_turn(role, index) == (index % 2 = 0) <=> (role = "initiator")

\* HandshakeState::is_handshake_finished
is_handshake_finished(index) == index = HandshakeMessages

\* One end of the handshake: where the future is, the messages its
\* HandshakeState has processed, the prefix and message it is writing or
\* reading, the writes and reads it has completed in order, and the read and
\* write state of the NoiseStream it returns.
HandshakeEnd(pc, index, prefix, len, sent, ops, read_st, write_st) ==
    [pc |-> pc, index |-> index, prefix |-> prefix, len |-> len, sent |-> sent,
     ops |-> ops, read_state |-> read_st, write_state |-> write_st]

\* The bytes in flight from one end to the other: the prefix bytes and the
\* count of message bytes behind them.
NoBytes == [prefix |-> <<>>, message |-> 0]

HandshakeInit ==
    hs = [side |-> [role \in HandshakeStates |->
                      HandshakeEnd("loop", 0, <<>>, 0, 0, <<>>, "none", "none")],
          pipe |-> [role \in HandshakeStates |-> NoBytes]]

\* handshake, is_my_turn: state.write_message and write_all(&prefix).
HandshakeWritePrefix(role) ==
    LET e == hs.side[role]
        len == handshake_message_len(role)
        prefix == to_be_bytes(as_u16(len))
    IN /\ e.pc = "loop"
       /\ ~is_handshake_finished(e.index)
       /\ is_my_turn(role, e.index)
       /\ hs' = [hs EXCEPT
                    !.side[role] = [e EXCEPT !.pc = "write_all(message)",
                                             !.index = @ + 1,
                                             !.prefix = prefix, !.len = len,
                                             !.sent = 0],
                    !.pipe[role].prefix = @ \o prefix]
       /\ UNCHANGED <<serverVars, netVars, framedVars, frontVars, parseVars,
                   startupVars>>

\* handshake, write_all(&message[..len]): the inner stream takes the bytes in
\* one write or in several.
HandshakeWriteMessage(role) ==
    LET e == hs.side[role]
    IN \E n \in {1, e.len - e.sent} :
        /\ e.pc = "write_all(message)"
        /\ n > 0
        /\ hs' = [hs EXCEPT
                     !.side[role] =
                        [e EXCEPT !.sent = @ + n,
                                  !.pc = IF e.sent + n = e.len THEN "flush"
                                         ELSE @],
                     !.pipe[role].message = @ + n]
        /\ UNCHANGED <<serverVars, netVars, framedVars, frontVars, parseVars,
                   startupVars>>

\* handshake, stream.flush(): the write is complete, back to the loop.
HandshakeFlush(role) ==
    LET e == hs.side[role]
    IN /\ e.pc = "flush"
       /\ hs' = [hs EXCEPT !.side[role] =
                    [e EXCEPT !.pc = "loop", !.ops = Append(@, "write")]]
       /\ UNCHANGED <<serverVars, netVars, framedVars, frontVars, parseVars,
                   startupVars>>

\* handshake, not its turn: read_exact(&mut len_buf) completes once the peer's
\* two prefix bytes are there.
HandshakeReadPrefix(role) ==
    LET e == hs.side[role]
        in == hs.pipe[Peer(role)]
    IN /\ e.pc = "loop"
       /\ ~is_handshake_finished(e.index)
       /\ ~is_my_turn(role, e.index)
       /\ Len(in.prefix) >= LENGTH_FIELD_LEN
       /\ hs' = [hs EXCEPT
                    !.side[role] =
                       [e EXCEPT !.pc = "read_exact(message)",
                                 !.prefix = SubSeq(in.prefix, 1, LENGTH_FIELD_LEN),
                                 !.len = from_be_bytes(
                                            SubSeq(in.prefix, 1, LENGTH_FIELD_LEN))],
                    !.pipe[Peer(role)].prefix =
                        SubSeq(in.prefix, LENGTH_FIELD_LEN + 1, Len(in.prefix))]
       /\ UNCHANGED <<serverVars, netVars, framedVars, frontVars, parseVars,
                   startupVars>>

\* handshake: read_exact(&mut message[..len]) completes once len message
\* bytes are there, and state.read_message takes the peer's message.
HandshakeReadMessage(role) ==
    LET e == hs.side[role]
        in == hs.pipe[Peer(role)]
    IN /\ e.pc = "read_exact(message)"
       /\ in.message >= e.len
       /\ e.len = handshake_message_len(Peer(role))
       /\ hs' = [hs EXCEPT
                    !.side[role] = [e EXCEPT !.pc = "loop", !.index = @ + 1,
                                             !.ops = Append(@, "read")],
                    !.pipe[Peer(role)].message = @ - e.len]
       /\ UNCHANGED <<serverVars, netVars, framedVars, frontVars, parseVars,
                   startupVars>>

\* handshake, is_handshake_finished: into_transport_mode and the NoiseStream.
HandshakeFinished(role) ==
    LET e == hs.side[role]
    IN /\ e.pc = "loop"
       /\ is_handshake_finished(e.index)
       /\ hs' = [hs EXCEPT !.side[role] =
                    [e EXCEPT !.pc = "transport", !.read_state = "Idle",
                              !.write_state = "Idle"]]
       /\ UNCHANGED <<serverVars, netVars, framedVars, frontVars, parseVars,
                   startupVars>>

HandshakeNext ==
    \E role \in HandshakeStates :
        \/ HandshakeWritePrefix(role)
        \/ HandshakeWriteMessage(role)
        \/ HandshakeFlush(role)
        \/ HandshakeReadPrefix(role)
        \/ HandshakeReadMessage(role)
        \/ HandshakeFinished(role)

\* ------------------------------------------------------------ share names
\* The first index of the character ch in s at or after i, 0 if there is none.
RECURSIVE find(_, _, _)
find(s, ch, i) ==
    IF i > Len(s) THEN 0
    ELSE IF SubSeq(s, i, i) = ch THEN i
    ELSE find(s, ch, i + 1)

\* str::split_once
split_once(s, ch) ==
    LET i == find(s, ch, 1)
    IN IF i = 0 THEN [some |-> FALSE, left |-> s, right |-> ""]
       ELSE [some |-> TRUE, left |-> SubSeq(s, 1, i - 1),
             right |-> SubSeq(s, i + 1, Len(s))]

\* s cut at every ch.
RECURSIVE split(_, _)
split(s, ch) ==
    LET o == split_once(s, ch)
    IN IF o.some THEN <<o.left>> \o split(o.right, ch) ELSE <<s>>

Digits == "0123456789"
\* The value of a decimal digit, -1 for any other character.
digit(c) == find(Digits, c, 1) - 1
AllDigits(s) == \A i \in 1 .. Len(s) : digit(SubSeq(s, i, i)) >= 0

RECURSIVE parse_digits(_, _)
parse_digits(s, acc) ==
    IF s = "" THEN acc ELSE parse_digits(Tail(s), acc * 10 + digit(Head(s)))

\* Display of an unsigned integer.
RECURSIVE to_string(_)
to_string(n) ==
    IF n < 10 THEN SubSeq(Digits, n + 1, n + 1)
    ELSE to_string(n \div 10) \o SubSeq(Digits, (n % 10) + 1, (n % 10) + 1)

\* u16::from_str: an optional "+", then digits, leading zeros allowed, the
\* value within 16 bits.
u16_from_str(s) ==
    LET body == IF s # "" /\ Head(s) = "+" THEN Tail(s) ELSE s
    IN IF body = "" \/ ~AllDigits(body)
       THEN [ok |-> FALSE, val |-> 0]
       ELSE IF parse_digits(body, 0) >= 2 ^ 16 THEN [ok |-> FALSE, val |-> 0]
       ELSE [ok |-> TRUE, val |-> parse_digits(body, 0)]

\* One octet of a dotted quad: one to three digits, no leading zero, at most
\* 255.
Octet(s) ==
    /\ Len(s) \in 1 .. 3
    /\ AllDigits(s)
    /\ Len(s) > 1 => Head(s) # "0"
    /\ parse_digits(s, 0) < 2 ^ 8

NoAddr == <<>>
\* Ipv4Addr::from_str: four octets separated by dots.
Ipv4Addr_from_str(s) ==
    LET parts == split(s, ".")
    IN IF Len(parts) = 4 /\ \A i \in 1 .. 4 : Octet(parts[i])
       THEN [ok |-> TRUE, addr |-> [i \in 1 .. 4 |-> parse_digits(parts[i], 0)]]
       ELSE [ok |-> FALSE, addr |-> NoAddr]

\* Display for Ipv4Addr
Ipv4Addr_to_string(addr) ==
    to_string(addr[1]) \o "." \o to_string(addr[2]) \o "."
        \o to_string(addr[3]) \o "." \o to_string(addr[4])

NoPort == -1
RemotePeerAddr(res, addr, port) == [res |-> res, addr |-> addr, port |-> port]

\* RemotePeerAddr::from_str that stores the port it read, the default one too.
RemotePeerAddr_from_str_KeepsPort(s) ==
    LET o == split_once(s, ":")
        addr == Ipv4Addr_from_str(o.left)
        port == u16_from_str(o.right)
    IN IF o.some
       THEN IF ~addr.ok THEN RemotePeerAddr("InvalidAddress", NoAddr, NoPort)
            ELSE IF ~port.ok THEN RemotePeerAddr("PortNumber", NoAddr, NoPort)
            ELSE RemotePeerAddr("Ok", addr.addr, port.val)
       ELSE IF ~addr.ok THEN RemotePeerAddr("InvalidAddress", NoAddr, NoPort)
            ELSE RemotePeerAddr("Ok", addr.addr, NoPort)

\* RemotePeerAddr::from_str: the address, then after a ":" the port, stored as
\* absent when it is NETWORK_PORT.
RemotePeerAddr_from_str(s) ==
    LET o == split_once(s, ":")
        addr == Ipv4Addr_from_str(o.left)
        port == u16_from_str(o.right)
    IN IF o.some
       THEN IF ~addr.ok THEN RemotePeerAddr("InvalidAddress", NoAddr, NoPort)
            ELSE IF ~port.ok THEN RemotePeerAddr("PortNumber", NoAddr, NoPort)
            ELSE RemotePeerAddr("Ok", addr.addr,
                                IF port.val = NETWORK_PORT THEN NoPort ELSE port.val)
       ELSE IF ~addr.ok THEN RemotePeerAddr("InvalidAddress", NoAddr, NoPort)
            ELSE RemotePeerAddr("Ok", addr.addr, NoPort)

\* Display for RemotePeerAddr: "{addr}" and ":{port}" when a port is stored.
RemotePeerAddr_to_string(a) ==
    Ipv4Addr_to_string(a.addr)
        \o (IF a.port = NoPort THEN "" ELSE ":" \o to_string(a.port))

\* A parsed name: the variant ("Common", "Full", or "none" for an error), the
\* error, and the fields.
Parsed(res, variant, addr, port, name) ==
    [res |-> res, variant |-> variant, addr |-> addr, port |-> port, name |-> name]
ParseError(res) == Parsed(res, "none", NoAddr, NoPort, NoName)

\* CommonShareName::from_str as a parse result.
CommonShareName_parse(s) ==
    IF CommonShareName_from_str(s).ok
    THEN Parsed("Ok", "Common", NoAddr, NoPort, CommonShareName_from_str(s).name)
    ELSE ParseError("NameTooLong")

\* FullShareName::from_str: split at the first "/", the address, then the name.
FullShareName_from_str(s) ==
    LET o == split_once(s, "/")
        addr == RemotePeerAddr_from_str(o.left)
        name == CommonShareName_from_str(o.right)
    IN IF ~o.some THEN ParseError("NoSeparator")
       ELSE IF addr.res # "Ok" THEN ParseError("InvalidAddress")
       ELSE IF ~name.ok THEN ParseError("InvalidCommonShareName")
       ELSE Parsed("Ok", "Full", addr.addr, addr.port, name.name)

\* ShareName::from_str that does not fall back to the common form.
ShareName_from_str_FullOnly(s) ==
    IF FullShareName_from_str(s).res = "Ok" THEN FullShareName_from_str(s)
    ELSE ParseError("FailedToParseAsAny")

\* ShareName::from_str: the full form if the text parses as one, else the
\* common form, else the error of the full form.
ShareName_from_str(s) ==
    IF FullShareName_from_str(s).res = "Ok" THEN FullShareName_from_str(s)
    ELSE IF CommonShareName_from_str(s).ok THEN CommonShareName_parse(s)
    ELSE ParseError("FailedToParseAsAny")

\* Display for ShareName, FullShareName ("{addr}/{name}") and CommonShareName.
ShareName_to_string(v) ==
    IF v.variant = "Full"
    THEN RemotePeerAddr_to_string([addr |-> v.addr, port |-> v.port]) \o "/" \o v.name
    ELSE v.name

\* The longest name CommonShareName takes.
Name60 == SubSeq(LongName, 1, MAX_SHARE_NAME_LENGTH)

\* Texts to parse: names, and addresses with and without a port in front of
\* them.
AddrTexts == {"1.2.3.4", "10.0.0.255", "256.1.1.1", "01.2.3.4", "Invalid IP", ""}
PortTexts == {"29284", "1234", "029284", "+1234", "65535", "65536", "", "rd"}
NameTexts == {"", "A", "Example", "a/b", Name60, LongName}
ShareNameTexts ==
    NameTexts
        \cup {a \o "/" \o n : a \in AddrTexts, n \in NameTexts}
        \cup {a \o ":" \o p \o "/" \o n :
                a \in AddrTexts, p \in PortTexts, n \in NameTexts}

Parsers == {"CommonShareName", "FullShareName", "ShareName"}
from_str(parser, s) ==
    CASE parser = "CommonShareName" -> CommonShareName_parse(s)
      [] parser = "FullShareName" -> FullShareName_from_str(s)
      [] parser = "ShareName" -> ShareName_from_str(s)

NoText == "-"
Names(s, parser, out, text, again) ==
    [s |-> s, parser |-> parser, out |-> out, text |-> text, again |-> again]

ParseInit == names = Names(NoText, "none", ParseError("none"), NoText, ParseError("none"))

\* A text is parsed as one of the three kinds of name.
FromStr ==
    \E s \in ShareNameTexts, parser \in Parsers :
        /\ names.s = NoText
        /\ names' = Names(s, parser, from_str(parser, s), NoText, ParseError("none"))
        /\ UNCHANGED <<serverVars, netVars, framedVars, frontVars, hsVars,
                   startupVars>>

\* The parsed name is formatted, and the text it gives is parsed again.
Display ==
    /\ names.out.res = "Ok"
    /\ names.text = NoText
    /\ LET text == ShareName_to_string(names.out)
       IN names' = [names EXCEPT !.text = text,
                                 !.again = from_str(names.parser, text)]
    /\ UNCHANGED <<serverVars, netVars, framedVars, frontVars, hsVars,
                   startupVars>>

ParseNext ==
    \/ FromStr
    \/ Display

\* ------------------------------------------------------------------ main
\* The commands of the command line, subcommands spelled out.
Commands == {"ConnectLs", "ConnectMount", "ConnectUnmount", "Discover", "Kill",
             "Ls", "ShareLs", "ShareRemove", "ShareShare"}

\* What a front-end finds on disk: the tmpdir ("present", "absent", or
\* "no_parent" when it cannot be created) and in it the socket path: "absent",
\* "live" with a daemon listening, or "stale", a file nobody listens on.
Disks ==
    {[tmp_dir |-> "present", sock |-> s] : s \in {"absent", "live", "stale"}}
        \cup {[tmp_dir |-> d, sock |-> "absent"] : d \in {"absent", "no_parent"}}

\* Args::should_server_start that holds for every Connect and Share
\* subcommand.
should_server_start_AllSubcommands(command) ==
    command \in {"ConnectLs", "ConnectMount", "ConnectUnmount", "Discover",
                 "ShareLs", "ShareRemove", "ShareShare"}

\* Args::should_server_start, the test main makes before it starts a daemon.
should_server_start(command) ==
    CASE command = "ConnectLs" -> FALSE
      [] command \in {"ConnectMount", "ConnectUnmount"} -> TRUE
      [] command = "Discover" -> TRUE
      [] command \in {"ShareRemove", "ShareShare"} -> TRUE
      [] command = "ShareLs" -> FALSE
      [] command \in {"Kill", "Ls"} -> FALSE

\* try_connect: nothing at the path gives None; otherwise connect, and a
\* failed connect removes the file.
try_connect(disk) ==
    CASE disk.sock = "absent" -> [disk |-> disk, sock |-> FALSE]
      [] disk.sock = "live" -> [disk |-> disk, sock |-> TRUE]
      [] disk.sock = "stale" ->
            [disk |-> [disk EXCEPT !.sock = "absent"], sock |-> FALSE]

\* fs::create_dir(&args.tmp_dir), its result dropped.
create_dir(disk) ==
    IF disk.tmp_dir = "absent" THEN [disk EXCEPT !.tmp_dir = "present"] ELSE disk

\* UnixListener::bind(&sock_path): it needs the directory and a free path.
bind(disk) ==
    IF disk.tmp_dir = "present" /\ disk.sock = "absent"
    THEN [disk |-> [disk EXCEPT !.sock = "live"], res |-> "Ok"]
    ELSE [disk |-> disk, res |-> "Err"]

Front(pc, command, found, disk, maybe_sock, created, bound, forked, run) ==
    [pc |-> pc, command |-> command, found |-> found, disk |-> disk,
     maybe_sock |-> maybe_sock, create_dir |-> created, bind |-> bound,
     fork |-> forked, run |-> run]

FrontInit ==
    front = Front("none", "none", [tmp_dir |-> "absent", sock |-> "absent"],
                  [tmp_dir |-> "absent", sock |-> "absent"], FALSE, FALSE,
                  "none", "none", {})

\* A front-end is started with a command: Args::parse.
MainParse ==
    \E command \in Commands, disk \in Disks :
        /\ front.pc = "none"
        /\ front' = [front EXCEPT !.pc = "try_connect", !.command = command,
                                  !.found = disk, !.disk = disk]
        /\ UNCHANGED <<serverVars, netVars, framedVars, parseVars, hsVars,
                   startupVars>>

\* main, `let maybe_sock = try_connect(&sock_path)` and the test that follows.
MainTryConnect ==
    /\ front.pc = "try_connect"
    /\ LET o == try_connect(front.disk)
       IN front' = [front EXCEPT
                       !.disk = o.disk, !.maybe_sock = o.sock,
                       !.pc = IF should_server_start(front.command) /\ ~o.sock
                              THEN "bind" ELSE "run"]
    /\ UNCHANGED <<serverVars, netVars, framedVars, parseVars, hsVars,
                   startupVars>>

\* main, create_dir and UnixListener::bind; a failed bind returns the error.
MainBind ==
    /\ front.pc = "bind"
    /\ LET o == bind(create_dir(front.disk))
       IN front' = [front EXCEPT
                       !.disk = o.disk, !.create_dir = TRUE, !.bind = o.res,
                       !.pc = IF o.res = "Ok" THEN "fork" ELSE "done",
                       !.run = IF o.res = "Ok" THEN @ ELSE {"error"}]
    /\ UNCHANGED <<serverVars, netVars, framedVars, parseVars, hsVars,
                   startupVars>>

\* main, fork: the child keeps the listener and will be the daemon, the
\* parent drops it and stays the client; a failed fork returns the error.
MainFork ==
    \E res \in {"Ok", "Err"} :
        /\ front.pc = "fork"
        /\ front' = [front EXCEPT
                        !.fork = res,
                        !.pc = IF res = "Ok" THEN "run" ELSE "done",
                        !.run = IF res = "Ok" THEN @ ELSE {"error"}]
        /\ UNCHANGED <<serverVars, netVars, framedVars, parseVars, hsVars,
                   startupVars>>

\* main, `match is_client`: Client::run in the process that did not fork or
\* is the parent, Server::run with the listener in the child.
MainRun ==
    /\ front.pc = "run"
    /\ front' = [front EXCEPT
                    !.pc = "done",
                    !.run = IF front.fork = "Ok" THEN {"Client::run", "Server::run"}
                            ELSE {"Client::run"}]
    /\ UNCHANGED <<serverVars, netVars, framedVars, parseVars, hsVars,
                   startupVars>>

FrontNext ==
    \/ MainParse
    \/ MainTryConnect
    \/ MainBind
    \/ MainFork
    \/ MainRun

\* ------------------------------------------------- main, started twice
FrontEnds == 1 .. NumFrontEnds
NoFrontEnd == 0

\* The commands the racing front-ends are given: one that needs a daemon and
\* one that does not.
StartupCommands == {"ShareShare", "Ls"}

\* One front-end: where it is in main, its command, the daemon its
\* try_connect reached, what its remove_file removed and whether a listener
\* was bound to that, whether it holds a bound listener, whether it forked a
\* daemon, and how it ended.
FrontEnd(pc, command, maybe_sock, removed, removed_live, forked, run) ==
    [pc |-> pc, command |-> command, maybe_sock |-> maybe_sock,
     removed |-> removed, removed_live |-> removed_live, daemon |-> forked,
     run |-> run]

\* The socket path holds nothing ("absent"), the file of a daemon that is gone
\* ("stale"), or the file the front-end named bound; `listening` are the
\* front-ends whose bound listener is open, in them or in their daemon.
File(file, by) == [file |-> file, by |-> by]
Absent == File("absent", NoFrontEnd)

StartupInit ==
    startup = [path |-> Absent, listening |-> {},
               proc |-> [p \in FrontEnds |->
                           FrontEnd("none", "none", NoFrontEnd, Absent, FALSE,
                                    FALSE, "none")]]

\* A daemon that is gone has left its socket file behind.
StaleSocket ==
    /\ startup.path = Absent
    /\ \A p \in FrontEnds : startup.proc[p].pc = "none"
    /\ startup' = [startup EXCEPT !.path = File("stale", NoFrontEnd)]
    /\ UNCHANGED <<serverVars, netVars, framedVars, frontVars, parseVars, hsVars>>

\* Args::parse
StartupParse(p) ==
    \E command \in StartupCommands :
        /\ startup.proc[p].pc = "none"
        /\ startup' = [startup EXCEPT !.proc[p].pc = "path.exists()",
                                      !.proc[p].command = command]
        /\ UNCHANGED <<serverVars, netVars, framedVars, frontVars, parseVars, hsVars>>

\* try_connect, path.exists()
StartupExists(p) ==
    /\ startup.proc[p].pc = "path.exists()"
    /\ startup' = [startup EXCEPT
                      !.proc[p].pc = IF startup.path = Absent THEN "test"
                                     ELSE "connect"]
    /\ UNCHANGED <<serverVars, netVars, framedVars, frontVars, parseVars, hsVars>>

\* try_connect, UnixStream::connect(path): it succeeds when a listener is bound
\* to the file now at the path.
StartupConnect(p) ==
    /\ startup.proc[p].pc = "connect"
    /\ startup' =
          IF startup.path.by \in startup.listening
          THEN [startup EXCEPT !.proc[p].pc = "test",
                               !.proc[p].maybe_sock = startup.path.by]
          ELSE [startup EXCEPT !.proc[p].pc = "remove_file"]
    /\ UNCHANGED <<serverVars, netVars, framedVars, frontVars, parseVars, hsVars>>

\* try_connect, fs::remove_file(path) after the failed connect: whatever is at
\* the path now is unlinked.
StartupRemoveFile(p) ==
    /\ startup.proc[p].pc = "remove_file"
    /\ startup' = [startup EXCEPT
                      !.path = Absent,
                      !.proc[p].pc = "test",
                      !.proc[p].removed = startup.path,
                      !.proc[p].removed_live = startup.path.by \in startup.listening]
    /\ UNCHANGED <<serverVars, netVars, framedVars, frontVars, parseVars, hsVars>>

\* main: the command needs a daemon and none was reached: create_dir and
\* UnixListener::bind, which fails when a file is at the path.
StartupBind(p) ==
    LET e == startup.proc[p]
    IN /\ e.pc = "test"
       /\ should_server_start(e.command) /\ e.maybe_sock = NoFrontEnd
       /\ startup' =
             IF startup.path = Absent
             THEN [startup EXCEPT !.path = File("socket", p), !.listening = @ \cup {p},
                                  !.proc[p].pc = "fork"]
             ELSE [startup EXCEPT !.proc[p].pc = "done",
                                  !.proc[p].run = "error"]
       /\ UNCHANGED <<serverVars, netVars, framedVars, frontVars, parseVars, hsVars>>

\* main: fork; the child keeps the listener and runs the daemon.
StartupFork(p) ==
    /\ startup.proc[p].pc = "fork"
    /\ startup' = [startup EXCEPT !.proc[p].pc = "run", !.proc[p].daemon = TRUE]
    /\ UNCHANGED <<serverVars, netVars, framedVars, frontVars, parseVars, hsVars>>

\* main: Client::run, after a fork or without one.
StartupRun(p) ==
    LET e == startup.proc[p]
    IN /\ \/ e.pc = "run"
          \/ e.pc = "test" /\ ~(should_server_start(e.command)
                                 /\ e.maybe_sock = NoFrontEnd)
       /\ startup' = [startup EXCEPT !.proc[p].pc = "done",
                                     !.proc[p].run = "Client::run"]
       /\ UNCHANGED <<serverVars, netVars, framedVars, frontVars, parseVars, hsVars>>

StartupNext ==
    \/ StaleSocket
    \/ \E p \in FrontEnds :
          \/ StartupParse(p)
          \/ StartupExists(p)
          \/ StartupConnect(p)
          \/ StartupRemoveFile(p)
          \/ StartupBind(p)
          \/ StartupFork(p)
          \/ StartupRun(p)

Init == StateInit /\ DaemonInit /\ NetInit /\ FramedInit /\ PeerTaskInit /\ FrontInit
        /\ ParseInit /\ HandshakeInit /\ StartupInit

\* Any sequence of State methods, called with the arguments a caller may pass.
Next ==
    \/ AddShare
    \/ RemoveShare
    \/ NewPeerConnectedToShare
    \/ PeerConnectedToShare
    \/ PeerDisconnectedFromShare
    \/ KickPeerFromShare
    \/ JoinRemoteShareNew
    \/ JoinRemoteShare
    \/ ExitRemoteShare
    \/ NotificationRxDropped

Spec == Init /\ [][Next]_vars

\* The daemon: control requests served by handle_client tasks, peer
\* connections reaching handle_peer, and run taking the shutdown signal.
DaemonSpec == Init /\ [][DaemonNext]_vars

\* A Noise connection in one direction: handshake, then frames written by
\* poll_write and read by poll_read.
NetSpec == Init /\ [][NetNext]_vars

\* Peers served by the daemon and their long-lived tasks; a spawned task gets
\* to run.
PeerSpec == Init /\ [][PeerNext]_vars /\ WF_vars(LongLivedPeerConnection)

\* Front-ends started at the same time on one socket path.
StartupSpec == Init /\ [][StartupNext]_vars

\* The Noise handshake between an initiator and a responder.
HandshakeSpec == Init /\ [][HandshakeNext]_vars

\* Share names parsed from text and formatted back.
ParseSpec == Init /\ [][ParseNext]_vars

\* One front-end process from its command line to Client::run or
\* Server::run.
FrontSpec == Init /\ [][FrontNext]_vars

\* A FramedStream over a pipe: buffers written at one end and read at the
\* other.
FramedSpec == Init /\ [][FramedNext]_vars

\* ------------------------------------------------------------------ properties
\* How many times an effect occurs among the effects of a call.
Count(ev, e) == Cardinality({i \in DOMAIN ev : ev[i] = e})

\* The edges a peer holds: both sets empty, or not.
NoEdges(peer) == peer.used_shares = {} /\ peer.used_remote_shares = {}

\* C1 (I1): in every state a State method has returned into, a common name is
\* in peers[p].used_shares exactly when shares[name] exists and its
\* participants contain p.
C1_I1_SharesMirrorPeers ==
    ~panicked =>
        \A p \in PeerIds, n \in CommonShareNames :
            (p \in DOMAIN peers /\ n \in peers[p].used_shares)
                <=> (n \in DOMAIN shares /\ p \in shares[n].participants)

\* C1 witness: after connects and a drop, two live peers use the same share and
\* one of them a second share, while a dropped peer's address lingers.
C1_Witness ==
    /\ ~panicked
    /\ \E p, q \in DOMAIN peers :
          /\ p # q
          /\ peers[p].used_shares = CommonShareNames
          /\ peers[q].used_shares # {}
          /\ peers[q].used_shares # CommonShareNames
    /\ next_peer_id # Cardinality(DOMAIN peers) % PeerIdModulus

\* C2 (I2): in every state a State method has returned into, a full name is in
\* peers[p].used_remote_shares exactly when remote_shares[full] exists with
\* owner p, and every remote share's owner is a live peer.
C2_I2_RemoteSharesMirrorPeers ==
    ~panicked =>
        /\ \A p \in PeerIds, f \in FullShareNames :
              (p \in DOMAIN peers /\ f \in peers[p].used_remote_shares)
                  <=> (f \in DOMAIN remote_shares /\ remote_shares[f].owner = p)
        /\ \A f \in DOMAIN remote_shares : remote_shares[f].owner \in DOMAIN peers

\* C2 witness: a peer that joined through join_remote_share (it also uses a
\* local share) owns a remote share, after an earlier owner has left.
C2_Witness ==
    /\ ~panicked
    /\ \E p \in DOMAIN peers, f \in DOMAIN remote_shares :
          /\ remote_shares[f].owner = p
          /\ peers[p].used_shares # {}
          /\ peers[p].address \in DOMAIN peers_by_socket
          /\ peers_by_socket[peers[p].address] = p
    /\ next_peer_id # Cardinality(DOMAIN peers) % PeerIdModulus

\* C3 (I3): for every live peer peers_by_socket[peer.address] is that peer's id,
\* and no two live peers have the same socket address.
C3_I3_SocketIndex ==
    ~panicked =>
        /\ \A p \in DOMAIN peers :
              /\ peers[p].address \in DOMAIN peers_by_socket
              /\ peers_by_socket[peers[p].address] = p
        /\ \A p, q \in DOMAIN peers :
              p # q => peers[p].address # peers[q].address

\* C4 (I4): every live peer has an edge, and every edge (a participant of a
\* share, the owner of a remote share) belongs to a live peer.
C4_I4_PeerLivesIffEdges ==
    ~panicked =>
        /\ \A p \in DOMAIN peers : ~NoEdges(peers[p])
        /\ \A n \in DOMAIN shares : shares[n].participants \subseteq DOMAIN peers
        /\ \A f \in DOMAIN remote_shares : remote_shares[f].owner \in DOMAIN peers

\* C4 witness: a peer was dropped (its address is still indexed, its id is
\* gone) while another peer, holding edges, lives on.
C4_Witness ==
    /\ ~panicked
    /\ DOMAIN peers # {}
    /\ \E a \in DOMAIN peers_by_socket :
          /\ peers_by_socket[a] \notin DOMAIN peers
          /\ \A p \in DOMAIN peers : peers[p].address # a

\* What try-drop owes peer p after a call that removed an edge of p: with no
\* edge left p is gone from peers and from peers_by_socket and its shutdown_tx
\* was signalled; otherwise p is in both indices as before and not signalled.
TryDropDone(p, out) ==
    LET left == [peers[p] EXCEPT !.used_shares = @ \cap DOMAIN out.st.shares,
                                 !.used_remote_shares = @ \cap DOMAIN out.st.remote_shares]
        gone == IF p \in DOMAIN out.st.peers THEN NoEdges(out.st.peers[p])
                ELSE TRUE
    IN IF gone
       THEN /\ p \notin DOMAIN out.st.peers
            /\ ~(/\ peers[p].address \in DOMAIN out.st.peers_by_socket
                 /\ out.st.peers_by_socket[peers[p].address] = p)
            /\ Count(out.ev, CancelEv(p)) = 1
       ELSE /\ p \in DOMAIN out.st.peers
            /\ out.st.peers_by_socket = peers_by_socket
            /\ Count(out.ev, CancelEv(p)) = 0

\* C5: after a successful edge removal (peer_disconnected_from_share,
\* kick_peer_from_share, remove_share, exit_remote_share) a peer left without
\* edges is removed from peers and from peers_by_socket and its cancellation
\* handle is signalled; a peer with an edge left stays and is not signalled.
C5_TryDropBothIndices ==
    ~panicked =>
        /\ \A p \in DOMAIN peers, n \in CommonShareNames :
              /\ LET out == peer_disconnected_from_share(State, p, n)
                 IN out.res = "Ok" => TryDropDone(p, out)
              /\ LET out == kick_peer_from_share(State, p, n)
                 IN out.res = "Ok" => TryDropDone(p, out)
        /\ \A n \in DOMAIN shares :
              LET out == remove_share(State, n)
              IN out.res = "Ok" =>
                    \A p \in shares[n].participants : TryDropDone(p, out)
        /\ \A p \in DOMAIN peers, f \in FullShareNames :
              LET out == exit_remote_share(State, p, f)
              IN out.res = "Ok" => TryDropDone(p, out)

\* Every call a caller can make on the State, with its outcome.
Calls ==
    {add_share(State, ShareNew(n, path)) : n \in CommonShareNames, path \in SharePaths}
    \cup {remove_share(State, n) : n \in CommonShareNames}
    \cup {new_peer_connected_to_share(State, PeerNew(a), n) :
            a \in SocketAddrs, n \in IF HasFreePeerId(State) THEN CommonShareNames ELSE {}}
    \cup {peer_connected_to_share(State, p, n) :
            p \in DOMAIN peers, n \in CommonShareNames}
    \cup {peer_disconnected_from_share(State, p, n) :
            p \in DOMAIN peers, n \in CommonShareNames}
    \cup {kick_peer_from_share(State, p, n) :
            p \in DOMAIN peers, n \in CommonShareNames}
    \cup {join_remote_share_new(State, PeerNew(a), f, <<"mnt">>) :
            a \in SocketAddrs, f \in IF HasFreePeerId(State) THEN FullShareNames ELSE {}}
    \cup {join_remote_share(State, p, f, <<"mnt">>) :
            p \in DOMAIN peers, f \in FullShareNames}
    \cup {exit_remote_share(State, p, f) : p \in DOMAIN peers, f \in FullShareNames}

Errors == {"RepeatedShare", "ShareDoesntExist", "RepeatedPeer", "PeerNotUsingShare",
           "RepeatedRemoteShare", "NoSuchRemoteShare"}

\* C6: a State method that returns an error leaves peers, peers_by_socket,
\* shares, remote_shares and next_peer_id as they were and has sent no
\* notification, no peer cancellation and no server-shutdown signal.
C6_NoPartialMutationOnError ==
    ~panicked =>
        \A out \in Calls :
            /\ out.res \in Errors \cup {"Ok", "Panic"}
            /\ out.res \in Errors => (out.st = State /\ out.ev = <<>>)

\* C6 witness: a state with a live peer, its address taken, a remote share
\* mounted, one share present and one absent, where calls fail with RepeatedPeer,
\* ShareDoesntExist, PeerNotUsingShare, RepeatedRemoteShare and RepeatedShare.
C6_Witness ==
    /\ ~panicked
    /\ HasFreePeerId(State)
    /\ \E a \in SocketAddrs, n \in CommonShareNames :
          new_peer_connected_to_share(State, PeerNew(a), n).res = "RepeatedPeer"
    /\ \E a \in SocketAddrs, n \in CommonShareNames :
          new_peer_connected_to_share(State, PeerNew(a), n).res = "ShareDoesntExist"
    /\ \E p \in DOMAIN peers, n \in CommonShareNames :
          kick_peer_from_share(State, p, n).res = "PeerNotUsingShare"
    /\ \E p \in DOMAIN peers, f \in FullShareNames :
          join_remote_share(State, p, f, <<"mnt">>).res = "RepeatedRemoteShare"
    /\ \E n \in CommonShareNames :
          add_share(State, ShareNew(n, <<"1">>)).res = "RepeatedShare"

\* C7: with a participant whose notification receiver is closed, remove_share
\* and kick_peer_from_share still return Ok with the whole mutation done: the
\* share (the edge) is gone for every participant and try-drop has run.
C7_ClosedReceiverIgnored ==
    ~panicked =>
        /\ \A n \in DOMAIN shares :
              (\E p \in shares[n].participants : ~peers[p].notification_open) =>
                  LET out == remove_share(State, n)
                  IN /\ out.res = "Ok"
                     /\ n \notin DOMAIN out.st.shares
                     /\ \A p \in DOMAIN out.st.peers :
                           /\ n \notin out.st.peers[p].used_shares
                           /\ ~NoEdges(out.st.peers[p])
        /\ \A n \in DOMAIN shares : \A p \in shares[n].participants :
              ~peers[p].notification_open =>
                  LET out == kick_peer_from_share(State, p, n)
                  IN /\ out.res = "Ok"
                     /\ p \notin out.st.shares[n].participants
                     /\ p \in DOMAIN out.st.peers =>
                           /\ n \notin out.st.peers[p].used_shares
                           /\ ~NoEdges(out.st.peers[p])

\* A handle_client step whose effects hold a server-shutdown signal sent by
\* the shutdown predicate (a Kill's own try_broadcast is not the predicate's).
PredicateSignalled ==
    /\ last.task = "handle_client"
    /\ Count(last.ev, ServerShutdownEv) > 0
    /\ ~(last.req = "Kill" /\ last.part = "dispatch")

C9_RemoveShareShutdownOnce ==
    ~panicked =>
        \A n \in CommonShareNames :
            LET out == remove_share(State, n)
            IN /\ n \notin DOMAIN shares => out.res = "ShareDoesntExist"
               /\ Count(out.ev, ServerShutdownEv) =
                     IF /\ out.res = "Ok"
                        /\ DOMAIN out.st.peers = {}
                        /\ DOMAIN out.st.shares = {}
                     THEN 1 ELSE 0

\* C9 witness: two shares were added and one removed; removing the one that is
\* left, which a peer still uses, empties the state and signals once.
C9_Witness ==
    /\ ~panicked
    /\ \E n \in CommonShareNames :
          /\ DOMAIN shares = {n}
          /\ shares[n].participants # {}
          /\ remove_share(State, n).res = "Ok"
          /\ Count(remove_share(State, n).ev, ServerShutdownEv) = 1
    /\ DOMAIN peers_by_socket = SocketAddrs

\* C10: a remove_share(name) that returns Ok deletes the share and nothing
\* else of shares; each participant loses `name` from used_shares and gets
\* exactly one KickedFromShare(name); a participant with no other edge is
\* dropped and cancelled once, one with another edge stays uncancelled; a peer
\* that was no participant is left as it was and gets nothing.
C10_RemoveShareKicksParticipants ==
    ~panicked =>
        \A n \in DOMAIN shares :
            LET out == remove_share(State, n)
            IN out.res = "Ok" =>
                /\ out.st.shares = MapRemove(shares, n)
                /\ \A p \in DOMAIN peers :
                      IF p \in shares[n].participants
                      THEN /\ Count(out.ev, NotifyEv(p, n)) = 1
                           /\ IF peers[p].used_shares = {n}
                                 /\ peers[p].used_remote_shares = {}
                              THEN /\ p \notin DOMAIN out.st.peers
                                   /\ Count(out.ev, CancelEv(p)) = 1
                              ELSE /\ p \in DOMAIN out.st.peers
                                   /\ out.st.peers[p] =
                                        [peers[p] EXCEPT !.used_shares = @ \ {n}]
                                   /\ Count(out.ev, CancelEv(p)) = 0
                      ELSE /\ p \in DOMAIN out.st.peers
                           /\ out.st.peers[p] = peers[p]
                           /\ \A i \in DOMAIN out.ev : out.ev[i].peer # p

\* C10 witness: a share with two participants, one with no other edge and one
\* that also uses the other share, both still listening; its removal returns Ok.
C10_Witness ==
    /\ ~panicked
    /\ \E n \in DOMAIN shares : \E p, q \in shares[n].participants :
          /\ peers[p].used_shares = {n}
          /\ peers[p].used_remote_shares = {}
          /\ peers[q].used_shares = CommonShareNames
          /\ remove_share(State, n).res = "Ok"
          /\ Len(remove_share(State, n).ev) = 3


\* C11: new_peer_connected_to_share(peer, name) returns RepeatedPeer when
\* peer.address is a key of peers_by_socket, else ShareDoesntExist when the
\* share is absent (the State is as before in both cases), and else Ok with an
\* id that no live peer has: peers gains that id with the peer holding
\* used_shares = {name}, peers_by_socket maps the address to it, and
\* shares[name].participants gains it; nothing else changes.
C11_NewPeerConnectedToShare ==
    (~panicked /\ HasFreePeerId(State)) =>
        \A a \in SocketAddrs, n \in CommonShareNames :
            LET out == new_peer_connected_to_share(State, PeerNew(a), n)
            IN IF a \in DOMAIN peers_by_socket
               THEN out.res = "RepeatedPeer" /\ out.st = State
               ELSE IF n \notin DOMAIN shares
               THEN out.res = "ShareDoesntExist" /\ out.st = State
               ELSE /\ out.res = "Ok"
                    /\ out.id \in PeerIds \ DOMAIN peers
                    /\ out.st.peers = MapInsert(peers, out.id,
                          [PeerNew(a) EXCEPT !.used_shares = {n}])
                    /\ out.st.peers_by_socket = MapInsert(peers_by_socket, a, out.id)
                    /\ out.st.shares =
                          [shares EXCEPT ![n].participants = @ \cup {out.id}]
                    /\ out.st.remote_shares = remote_shares
                    /\ out.ev = <<>>

\* C11 witness: a peer registered by new_peer_connected_to_share lives on one
\* share; from here a call with its address is refused with RepeatedPeer, one
\* for the absent share with ShareDoesntExist, and one with a free address and
\* the present share succeeds.
C11_Witness ==
    /\ ~panicked
    /\ HasFreePeerId(State)
    /\ \E p \in DOMAIN peers, n \in CommonShareNames, m \in CommonShareNames,
          a \in SocketAddrs :
          /\ peers[p].used_shares = {n}
          /\ peers[p].used_remote_shares = {}
          /\ peers_by_socket[peers[p].address] = p
          /\ new_peer_connected_to_share(State, PeerNew(peers[p].address), n).res
                = "RepeatedPeer"
          /\ new_peer_connected_to_share(State, PeerNew(a), m).res = "ShareDoesntExist"
          /\ new_peer_connected_to_share(State, PeerNew(a), n).res = "Ok"

\* The lifecycle of a peer that connects to share a from the State s: what
\* each call of the two sequences returns.
\*   short: new_peer_connected_to_share(peer, a); peer_disconnected_from_share(a)
\*   long:  new_peer_connected_to_share(peer, a); peer_connected_to_share(b);
\*          peer_disconnected_from_share(a); peer_disconnected_from_share(b)
Lifecycle(s, address, a, b) ==
    LET new == new_peer_connected_to_share(s, PeerNew(address), a)
        p == new.id
        gone == peer_disconnected_from_share(new.st, p, a)
        second == peer_connected_to_share(new.st, p, b)
        first_off == peer_disconnected_from_share(second.st, p, a)
        second_off == peer_disconnected_from_share(first_off.st, p, b)
    IN [new |-> new, gone |-> gone, second |-> second,
        first_off |-> first_off, second_off |-> second_off]

\* C12: from any state in which shares A and B exist and the address is not
\* registered, after new_peer_connected_to_share(peer, A) and
\* peer_disconnected_from_share(peer, A) the peer is no longer in peers and
\* its cancellation handle was signalled once; after
\* new_peer_connected_to_share(peer, A), peer_connected_to_share(peer, B) and
\* peer_disconnected_from_share(peer, A) the peer is still in peers and no
\* cancellation was sent, and the disconnect from B then removes the peer and
\* signals its cancellation handle once.
C12_PeerLifecycle ==
    (~panicked /\ HasFreePeerId(State)) =>
        \A address \in SocketAddrs \ DOMAIN peers_by_socket :
        \A a \in DOMAIN shares : \A b \in DOMAIN shares \ {a} :
            LET l == Lifecycle(State, address, a, b)
                p == l.new.id
            IN /\ l.new.res = "Ok"
               /\ p \in DOMAIN l.new.st.peers
               /\ l.new.ev = <<>>
               /\ l.gone.res = "Ok"
               /\ p \notin DOMAIN l.gone.st.peers
               /\ l.gone.ev = <<CancelEv(p)>>
               /\ l.second.res = "Ok"
               /\ l.second.ev = <<>>
               /\ l.first_off.res = "Ok"
               /\ p \in DOMAIN l.first_off.st.peers
               /\ l.first_off.st.peers[p].used_shares = {b}
               /\ l.first_off.ev = <<>>
               /\ l.second_off.res = "Ok"
               /\ p \notin DOMAIN l.second_off.st.peers
               /\ l.second_off.ev = <<CancelEv(p)>>

\* C12 witness: both shares exist, an earlier peer has lived and was dropped,
\* another peer is connected, and a peer with a free address goes through the
\* long sequence down to its removal.
C12_Witness ==
    /\ ~panicked
    /\ HasFreePeerId(State)
    /\ DOMAIN shares = CommonShareNames
    /\ DOMAIN peers # {}
    /\ \E x \in DOMAIN peers_by_socket : peers_by_socket[x] \notin DOMAIN peers
    /\ \E address \in SocketAddrs \ DOMAIN peers_by_socket :
       \E a \in DOMAIN shares : \E b \in DOMAIN shares \ {a} :
          /\ Lifecycle(State, address, a, b).second_off.res = "Ok"
          /\ Lifecycle(State, address, a, b).first_off.st.peers # peers

\* C13: for a live peer, peer_disconnected_from_share returns
\* ShareDoesntExist when the share is absent and PeerNotUsingShare when the
\* share exists and the peer holds no edge to it, a second disconnect after a
\* successful one included; in both cases the State (the peer, its other
\* edges) is as before and nothing was sent on its cancellation handle.
C13_DisconnectErrors ==
    ~panicked =>
        \A p \in DOMAIN peers, n \in CommonShareNames :
            LET out == peer_disconnected_from_share(State, p, n)
                again == peer_disconnected_from_share(out.st, p, n)
            IN /\ n \notin DOMAIN shares =>
                    (out.res = "ShareDoesntExist" /\ out.st = State /\ out.ev = <<>>)
               /\ (n \in DOMAIN shares /\ n \notin peers[p].used_shares) =>
                    (out.res = "PeerNotUsingShare" /\ out.st = State /\ out.ev = <<>>)
               /\ (n \in DOMAIN shares /\ n \in peers[p].used_shares) =>
                    /\ out.res = "Ok"
                    /\ p \in DOMAIN out.st.peers =>
                          /\ again.res = "PeerNotUsingShare"
                          /\ again.st = out.st
                          /\ again.ev = <<>>

\* C13 witness: a live peer uses one share and a remote share while the other
\* share is absent; disconnecting it from the absent share fails with
\* ShareDoesntExist, and disconnecting it twice from the share it uses fails
\* the second time with PeerNotUsingShare.
C13_Witness ==
    /\ ~panicked
    /\ \E p \in DOMAIN peers, n \in CommonShareNames, m \in CommonShareNames :
          /\ peers[p].used_shares = {n}
          /\ peers[p].used_remote_shares # {}
          /\ m \notin DOMAIN shares
          /\ peer_disconnected_from_share(State, p, m).res = "ShareDoesntExist"
          /\ peer_disconnected_from_share(State, p, n).res = "Ok"
          /\ peer_disconnected_from_share(
                peer_disconnected_from_share(State, p, n).st, p, n).res
                = "PeerNotUsingShare"

\* Among the effects ev, every signal on peer p's cancellation handle comes
\* after a KickedFromShare(n) put on p's notification sink.
NotifiedBeforeCancelled(ev, p, n) ==
    \A j \in DOMAIN ev :
        ev[j] = CancelEv(p) => \E i \in 1 .. (j - 1) : ev[i] = NotifyEv(p, n)

\* C14: kick_peer_from_share and remove_share put KickedFromShare(name) on a
\* peer's notification sink before try-drop runs for it, so a peer emptied by
\* the kick gets the notification before the signal on its cancellation
\* handle; peer_disconnected_from_share sends no notification at all.
C14_NotificationBeforeTryDrop ==
    ~panicked =>
        /\ \A p \in DOMAIN peers, n \in CommonShareNames :
              LET out == kick_peer_from_share(State, p, n)
              IN /\ NotifiedBeforeCancelled(out.ev, p, n)
                 /\ out.res = "Ok" => out.ev[1] = NotifyEv(p, n)
        /\ \A n \in DOMAIN shares : \A p \in shares[n].participants :
              LET out == remove_share(State, n)
              IN /\ NotifiedBeforeCancelled(out.ev, p, n)
                 /\ out.res = "Ok" => Count(out.ev, NotifyEv(p, n)) = 1
        /\ \A p \in DOMAIN peers, n \in CommonShareNames :
              LET out == peer_disconnected_from_share(State, p, n)
              IN \A i \in DOMAIN out.ev : out.ev[i].kind # "KickedFromShare"

\* C14 witness: two peers use one share and nothing else; kicking either sends
\* its notification and then its cancellation, removing the share does so for
\* both in turn, and a voluntary disconnect sends the cancellation alone.
C14_Witness ==
    /\ ~panicked
    /\ \E n \in DOMAIN shares : \E p \in shares[n].participants :
       \E q \in shares[n].participants \ {p} :
          /\ peers[p].used_shares = {n} /\ peers[p].used_remote_shares = {}
          /\ peers[q].used_shares = {n} /\ peers[q].used_remote_shares = {}
          /\ p < q
          /\ kick_peer_from_share(State, p, n).ev = <<NotifyEv(p, n), CancelEv(p)>>
          /\ SubSeq(remove_share(State, n).ev, 1, 4) =
                <<NotifyEv(p, n), CancelEv(p), NotifyEv(q, n), CancelEv(q)>>
          /\ peer_disconnected_from_share(State, p, n).ev = <<CancelEv(p)>>

\* C15: add_share returns RepeatedShare when the share's name is already a
\* key of shares and leaves the State, the existing share's path and
\* participants included, as it was; otherwise it returns Ok and shares gains
\* the share under its name, nothing else changing. Every entry of shares is
\* keyed by its own name.
C15_AddShareRejectsRepeated ==
    ~panicked =>
        /\ \A n \in DOMAIN shares : shares[n].name = n
        /\ \A n \in CommonShareNames, path \in SharePaths \cup ClientPaths :
              LET out == add_share(State, ShareNew(n, path))
              IN IF n \in DOMAIN shares
                 THEN /\ out.res = "RepeatedShare"
                      /\ out.st = State
                      /\ out.ev = <<>>
                 ELSE /\ out.res = "Ok"
                      /\ out.st = [State EXCEPT !.shares =
                                      MapInsert(shares, n, ShareNew(n, path))]
                      /\ out.ev = <<>>

\* C15 witness: one share exists with a participant and the other name is
\* free; adding the first again under another path is refused, adding the
\* second succeeds.
C15_Witness ==
    /\ ~panicked
    /\ \E n \in DOMAIN shares, m \in CommonShareNames \ DOMAIN shares :
          /\ shares[n].participants # {}
          /\ shares[n].path # <<"A">>
          /\ add_share(State, ShareNew(n, <<"A">>)).res = "RepeatedShare"
          /\ add_share(State, ShareNew(m, <<"A">>)).res = "Ok"

\* C16: join_remote_share_new for a peer whose address is not registered, and
\* join_remote_share for a live peer, return RepeatedRemoteShare with the
\* State unchanged when the full name is a key of remote_shares, whoever owns
\* it; otherwise they return Ok, remote_shares[full_name] exists with the
\* (returned or given) peer id as owner and the name is in that peer's
\* used_remote_shares; in the new-peer form the returned id is a fresh key of
\* peers and peers_by_socket maps the peer's address to it.
C16_Mounting ==
    ~panicked =>
        /\ HasFreePeerId(State) =>
              \A a \in SocketAddrs \ DOMAIN peers_by_socket, f \in FullShareNames,
                 path \in MountPaths :
                 LET out == join_remote_share_new(State, PeerNew(a), f, path)
                 IN IF f \in DOMAIN remote_shares
                    THEN out.res = "RepeatedRemoteShare" /\ out.st = State
                    ELSE /\ out.res = "Ok"
                         /\ out.id \in PeerIds \ DOMAIN peers
                         /\ out.st.remote_shares = MapInsert(remote_shares, f,
                               [owner |-> out.id, name |-> f.name, mount_path |-> path])
                         /\ out.st.peers = MapInsert(peers, out.id,
                               [PeerNew(a) EXCEPT !.used_remote_shares = {f}])
                         /\ out.st.peers_by_socket =
                               MapInsert(peers_by_socket, a, out.id)
                         /\ out.st.shares = shares
        /\ \A p \in DOMAIN peers, f \in FullShareNames, path \in MountPaths :
              LET out == join_remote_share(State, p, f, path)
              IN IF f \in DOMAIN remote_shares
                 THEN out.res = "RepeatedRemoteShare" /\ out.st = State
                 ELSE /\ out.res = "Ok"
                      /\ out.st.remote_shares = MapInsert(remote_shares, f,
                            [owner |-> p, name |-> f.name, mount_path |-> path])
                      /\ out.st.peers = [peers EXCEPT ![p].used_remote_shares =
                                            @ \cup {f}]
                      /\ out.st.peers_by_socket = peers_by_socket
                      /\ out.st.shares = shares

\* C17: exit_remote_share(peer_id, full_name) returns NoSuchRemoteShare and
\* leaves the State as it was when full_name is not in that peer's
\* used_remote_shares, another peer's remote share included; otherwise it
\* returns Ok, the edge and the remote_shares entry are gone, the peer is
\* dropped and cancelled if that was its last edge and kept uncancelled if
\* not, and after that the shutdown predicate has signalled exactly when peers
\* and shares are left empty.
C17_ExitRemoteShare ==
    ~panicked =>
        \A p \in DOMAIN peers, f \in FullShareNames :
            LET out == exit_remote_share(State, p, f)
                last_edge == peers[p].used_shares = {}
                                /\ peers[p].used_remote_shares = {f}
                cancel == IF last_edge THEN <<CancelEv(p)>> ELSE <<>>
                close == IF DOMAIN out.st.peers = {} /\ DOMAIN shares = {}
                         THEN <<ServerShutdownEv>> ELSE <<>>
            IN IF f \notin peers[p].used_remote_shares
               THEN /\ out.res = "NoSuchRemoteShare"
                    /\ out.st = State
                    /\ out.ev = <<>>
               ELSE /\ out.res = "Ok"
                    /\ out.st.remote_shares = MapRemove(remote_shares, f)
                    /\ out.st.shares = shares
                    /\ out.st.peers =
                          IF last_edge THEN MapRemove(peers, p)
                          ELSE [peers EXCEPT ![p].used_remote_shares = @ \ {f}]
                    /\ out.ev = cancel \o close

\* C17 witness: one peer owns a remote share as its only edge and another
\* peer is connected to a local share; the second peer's exit is refused with
\* NoSuchRemoteShare, the owner's exit removes the remote share and drops the
\* owner without signalling server shutdown.
C17_Witness ==
    /\ ~panicked
    /\ \E p \in DOMAIN peers, q \in DOMAIN peers, f \in DOMAIN remote_shares :
          /\ p # q
          /\ remote_shares[f].owner = p
          /\ peers[p].used_shares = {}
          /\ exit_remote_share(State, q, f).res = "NoSuchRemoteShare"
          /\ exit_remote_share(State, p, f).res = "Ok"
          /\ exit_remote_share(State, p, f).ev = <<CancelEv(p)>>
          /\ f \notin DOMAIN exit_remote_share(State, p, f).st.remote_shares

\* C18: once a peer was dropped by try-drop, new_peer_connected_to_share with
\* a Peer carrying the same socket address (no live peer has it) to an
\* existing share returns Ok with an id that no live peer has, and never
\* RepeatedPeer.
C18_DroppedPeerCanReconnect ==
    (~panicked /\ HasFreePeerId(State)) =>
        \A a \in DOMAIN peers_by_socket, n \in DOMAIN shares :
            (\A p \in DOMAIN peers : peers[p].address # a) =>
                LET out == new_peer_connected_to_share(State, PeerNew(a), n)
                IN /\ out.res = "Ok"
                   /\ out.id \in PeerIds \ DOMAIN peers
                   /\ out.id \in DOMAIN out.st.peers

\* C19: an id returned by new_peer_connected_to_share or
\* join_remote_share_new is the id of no live peer, wherever the wrapping
\* counter next_peer_id stands; the allocation loop advances the counter past
\* every id it finds taken, takes the first free one, leaves the counter one
\* past it, and ends within one round of the counter whenever an id is free.
C19_PeerIdAllocation ==
    /\ next_peer_id \in PeerIds
    /\ (~panicked /\ HasFreePeerId(State)) =>
          LET r == new_peer_id_loop(next_peer_id, DOMAIN peers, 0)
          IN /\ r.id \in PeerIds \ DOMAIN peers
             /\ r.iterations \in 1 .. PeerIdModulus
             /\ r.id = (next_peer_id + r.iterations - 1) % PeerIdModulus
             /\ r.next = (r.id + 1) % PeerIdModulus
             /\ \A k \in 0 .. (r.iterations - 2) :
                   ((next_peer_id + k) % PeerIdModulus) \in DOMAIN peers
             /\ new_peer_id(State) = [id |-> r.id, next |-> r.next]
             /\ \A a \in SocketAddrs, n \in CommonShareNames :
                   LET out == new_peer_connected_to_share(State, PeerNew(a), n)
                   IN out.res = "Ok" =>
                         /\ out.id = r.id
                         /\ out.id \notin DOMAIN peers
                         /\ out.st.next_peer_id = r.next
             /\ \A a \in SocketAddrs, f \in FullShareNames, path \in MountPaths :
                   LET out == join_remote_share_new(State, PeerNew(a), f, path)
                   IN out.res = "Ok" =>
                         /\ out.id = r.id
                         /\ out.id \notin DOMAIN peers
                         /\ out.st.next_peer_id = r.next

\* C19 witness: the counter has wrapped round to 0 and stands on the id of a
\* live peer; the loop skips it and a new peer gets the next id, which is free.
C19_Witness ==
    /\ ~panicked
    /\ HasFreePeerId(State)
    /\ next_peer_id = 0
    /\ next_peer_id \in DOMAIN peers
    /\ new_peer_id_loop(next_peer_id, DOMAIN peers, 0).iterations > 1
    /\ \E a \in SocketAddrs, n \in CommonShareNames :
          /\ new_peer_connected_to_share(State, PeerNew(a), n).res = "Ok"
          /\ new_peer_connected_to_share(State, PeerNew(a), n).id # next_peer_id

\* C20: every frame a NoiseStream puts on the inner stream, by the handshake
\* or by poll_write, starts with the 2-byte big-endian encoding of its message
\* length, which is at most 65535 (a data frame's payload at most 65535 - 16),
\* and is followed by that many message bytes; the reading end decodes from
\* each prefix the length of the message that follows it.
C20_WireFraming ==
    /\ \A i \in DOMAIN wire :
          /\ Len(wire[i].prefix) = LENGTH_FIELD_LEN
          /\ wire[i].message_len <= MAX_MESSAGE_LEN
          /\ wire[i].prefix = to_be_bytes(wire[i].message_len)
          /\ wire[i].by = "poll_write" =>
                /\ wire[i].payload_len <= MAX_MESSAGE_LEN - TAG_LEN
                /\ wire[i].message_len = wire[i].payload_len + TAG_LEN
    /\ (write_state.state = "WritingMessage"
            /\ write_state.start >= LENGTH_FIELD_LEN) =>
          write_state.prefix = to_be_bytes(write_state.message_len)
    /\ \A i \in DOMAIN read_state.lens :
          read_state.lens[i] = wire[i].message_len

\* The number of plaintext bytes the reader's poll_read calls returned.
Delivered == IF io.out = <<>> THEN 0 ELSE io.out[Len(io.out)].from + io.out[Len(io.out)].len

\* The reading end has read every frame on the inner stream to its end and
\* handed over all of its payload.
ReaderCaughtUp ==
    /\ read_state.state \in {"Idle", "ReadingLen", "ReadingMessage", "ShuttingDown"}
    /\ read_state.frames = Len(wire)

\* C21: after the handshake over a reliable in-order pipe, the bytes the
\* reader's poll_read calls returned, concatenated, are the first bytes of the
\* plaintext the writer's poll_write calls accepted, in order and without a gap
\* or a repeat, and once the reader has read every frame on the pipe they are
\* all of them, whatever the write chunks, the inner stream's pace and the read
\* buffer sizes.
C21_StreamIntegrity ==
    /\ io.out \in {<<>>, <<[from |-> 0, len |-> Delivered]>>}
    /\ Delivered <= io.accepted
    /\ ReaderCaughtUp => Delivered = io.accepted

\* C21 witness: more than one frame's worth of plaintext, written as a full
\* frame and a further one, has been read back whole, one payload in two reads.
C21_Witness ==
    /\ io.accepted > MAX_MESSAGE_LEN - TAG_LEN
    /\ Len(wire) = MaxFrames
    /\ ReaderCaughtUp
    /\ io.partial >= 1
    /\ Delivered = io.accepted

\* What FramedStream::write is to emit for a buffer: its length as two bytes,
\* high byte first, and then the buffer.
FrameOf(buf) ==
    Chain(Pack(<<ByteLen(buf) \div 256, ByteLen(buf) % 256>>), buf)
RECURSIVE FramesOf(_)
FramesOf(bufs) ==
    IF bufs = <<>> THEN <<>> ELSE Chain(FrameOf(Head(bufs)), FramesOf(Tail(bufs)))

\* C22: FramedStream::write of a buffer of at most 65535 bytes puts on the
\* stream the buffer's length as a 2-byte big-endian prefix followed by the
\* buffer, and FramedStream::read on that gives back exactly the buffer,
\* consuming exactly the frame; the buffers read are the buffers written, in
\* order, and the stream holds the frames of those not yet read.  A longer
\* buffer fails the assertion (a panic, no Err) with nothing written.
C22_FramedRoundTrip ==
    /\ Len(framed.read) <= Len(framed.written)
    /\ \A i \in DOMAIN framed.read : framed.read[i] = framed.written[i]
    /\ framed.stream =
          FramesOf(SubSeq(framed.written, Len(framed.read) + 1,
                          Len(framed.written)))
    /\ \A buf \in FramedBufs :
          LET w == FramedStream_write(framed.stream, buf)
          IN IF ByteLen(buf) <= 65535
             THEN /\ w.res = "Ok"
                  /\ w.stream = Chain(framed.stream, FrameOf(buf))
                  /\ FramedStream_read(FrameOf(buf)) =
                        [stream |-> <<>>, res |-> "Ok", buf |-> buf]
             ELSE /\ w.res = "panic"
                  /\ w.stream = framed.stream

\* C22 witness: a buffer of 65535 bytes was written and read back, and a write
\* of a 65536-byte buffer then failed the assertion.
C22_Witness ==
    /\ \E i \in DOMAIN framed.read : ByteLen(framed.read[i]) = MAX_FRAME_SIZE
    /\ framed.stream = <<>>
    /\ framed.panicked

\* The buffers a poll_write call may be given now: the buffer of the write that
\* is pending, or else any buffer.
WriteBufs == IF io.write_buf = NoBuf THEN BufLens ELSE {io.write_buf}

\* The payload bytes of the frames that are on the inner stream to their end.
RECURSIVE WholeFramesPayload(_)
WholeFramesPayload(frames) ==
    IF frames = <<>> THEN 0
    ELSE (IF Head(frames).written = LENGTH_FIELD_LEN + Head(frames).message_len
          THEN Head(frames).payload_len ELSE 0)
         + WholeFramesPayload(Tail(frames))

\* C23: poll_write returns Ready(Ok(n)) only from a call that has put the last
\* byte of the frame (prefix and ciphertext) on the inner stream, with
\* n = min(buf.len(), 65535 - 16) the plaintext encrypted into that frame, so
\* that the bytes reported consumed are those of whole frames; a call that
\* leaves the frame partly written returns Pending with the offset saved, and
\* the next call continues from that offset with the same buffer contents: no
\* second encryption, and the inner stream is given exactly the bytes after the
\* saved offset.
C23_WriteReportsOnCompletion ==
    /\ io.accepted = WholeFramesPayload(wire)
    /\ \A i \in DOMAIN wire :
          wire[i].written < LENGTH_FIELD_LEN + wire[i].message_len =>
              /\ i = Len(wire)
              /\ write_state.state \in {"WritingMessage", "ShuttingDown"}
              /\ write_state.state = "WritingMessage" =>
                    /\ write_state.start = wire[i].written
                    /\ write_state.prefix = wire[i].prefix
                    /\ write_state.message_len = wire[i].message_len
                    /\ write_state.nonce = wire[i].nonce + 1
    /\ \A i \in DOMAIN wire : wire[i].by = "poll_write" => wire[i].nonce = i - 2
    /\ write_state.state \in {"Idle", "WritingMessage"} =>
          \A buf_len \in WriteBufs, at \in StopAt :
              LET o == poll_write(write_state, buf_len, io.accepted, at)
                  total == LENGTH_FIELD_LEN + o.b.message_len
                  start == IF write_state.state = "WritingMessage"
                           THEN write_state.start ELSE 0
              IN /\ o.res \in {"Ok", "Pending"}
                 /\ o.sent >= 0
                 /\ o.res = "Ok" =>
                       /\ start + o.sent = total
                       /\ o.n = Min(buf_len, 65535 - 16)
                       /\ o.n = o.b.payload_len
                       /\ o.b.message_len = o.n + TAG_LEN
                       /\ o.w.state = "Idle"
                 /\ o.res = "Pending" =>
                       /\ start + o.sent < total
                       /\ o.w.state = "WritingMessage"
                       /\ o.w.start = start + o.sent
                       /\ o.w.payload_len = Min(buf_len, 65535 - 16)
                 /\ write_state.state = "WritingMessage" => o.b = write_state

\* C23 witness: a write of more than fits a frame got Pending with one byte of
\* the prefix written, and the next poll completes the frame and reports the
\* 65519 bytes of it.
C23_Witness ==
    /\ write_state.state = "WritingMessage"
    /\ write_state.start = 1
    /\ io.write_buf = MAX_MESSAGE_LEN - TAG_LEN + 1
    /\ wire[Len(wire)].written = 1
    /\ poll_write(write_state, io.write_buf, io.accepted, "All").res = "Ok"
    /\ poll_write(write_state, io.write_buf, io.accepted, "All").n
          = MAX_MESSAGE_LEN - TAG_LEN

\* C24: poll_close leaves the writer in ShuttingDown whatever its state was and
\* closes the inner stream; from then on every poll_write returns BrokenPipe
\* and gives nothing to the inner stream; and no frame is left on the inner
\* stream with only a part of its bytes written.
C24_Close ==
    /\ write_state.state # "Handshake" =>
          poll_close(write_state).w.state = "ShuttingDown"
    /\ inner_closed => write_state.state = "ShuttingDown"
    /\ write_state.state = "ShuttingDown" =>
          /\ \A buf_len \in BufLens, at \in StopAt :
                LET o == poll_write(write_state, buf_len, io.accepted, at)
                IN o.res = "BrokenPipe" /\ o.sent = 0 /\ o.w = write_state
          /\ poll_flush(write_state).w = write_state
          /\ \A i \in DOMAIN wire :
                wire[i].written = LENGTH_FIELD_LEN + wire[i].message_len

\* C25: when the inner stream returns 0 bytes to poll_read, the reading end
\* shuts down; if that happens between frames (no byte of a prefix read) the
\* caller gets Ok(0), the end of the stream, and if it happens inside a frame
\* (after one prefix byte, or in the message) the caller does not get the
\* Ok(0) of a clean end.
C25_EndOfStream ==
    (inner_closed /\ read_state.state \in {"Idle", "ReadingLen", "ReadingMessage"}) =>
        \A out_len \in OutLens, at \in StopAt :
            LET o == poll_read(read_state, out_len, CurrentFrame, at, TRUE)
            IN o.r.state = "ShuttingDown" =>
                  IF CurrentFrame.written = 0
                  THEN o.res = "Ok" /\ o.n = 0
                  ELSE o.res # "Ok"

\* The kinds of ClientMessage, and the kinds of ServerResponse.
ClientMessageKinds == {msg.kind : msg \in ClientMessages}
ServerResponses == {"Ok", "Err", "LsMountedShares", "LsShares", "Status"}

\* C26: whichever well-formed ClientMessage a control connection carries -
\* Connect(Ls | Mount | Unmount), Discover, Kill, Ls, Ping,
\* Share(Ls | Remove | Share) - handle_client builds one ServerResponse for it,
\* writes it, and finishes: no request leaves its handler without a response.
C26_OneResponsePerRequest ==
    /\ \A c \in ClientIds :
          clients[c].pc = "writing" =>
              /\ clients[c].req \in ClientMessageKinds
              /\ clients[c].resp \in ServerResponses
    /\ (last.task = "handle_client" /\ last.part \in {"dispatch", "end"}) =>
          /\ last.req \in ClientMessageKinds
          /\ last.resp \in ServerResponses

\* C27: when no request arrives in time or the payload does not decode,
\* handle_client ends there: no response, the State as it was, nothing sent on
\* the shutdown channel, the daemon running, and the connection's slot free
\* for the acceptor, which goes on accepting.
C27_BadRequestClosesQuietly ==
    [][(/\ last'.task = "handle_client"
        /\ last'.req \in {"Timeout", "Malformed"}
        /\ clients' # clients)
       => /\ UNCHANGED <<stateVars, shutdown_rx, panicked, daemon>>
          /\ last'.resp = "none"
          /\ last'.part = "read"
          /\ last'.ev = <<>>
          /\ \E c \in ClientIds :
                /\ clients[c].pc = "reading"
                /\ clients' = [clients EXCEPT ![c] = Idle]
          /\ ~panicked' /\ daemon' = "running"
          /\ \E c \in ClientIds : clients'[c].pc = "none"]_vars

\* C27 witness: a malformed request was dropped while the State was empty (the
\* shutdown predicate true), nothing is on the shutdown channel, and another
\* connection is being served.
C27_Witness ==
    /\ last.task = "handle_client"
    /\ last.req = "Malformed"
    /\ DOMAIN peers = {} /\ DOMAIN shares = {}
    /\ shutdown_rx = 0
    /\ daemon = "running" /\ ~panicked
    /\ \E c \in ClientIds : clients[c].pc = "reading"

\* C28: when the daemon exits on the shutdown signal, no handle_client task is
\* left in flight: each has read its request, sent its response and finished.
C28_GracefulShutdown ==
    daemon = "exited" => \A c \in ClientIds : clients[c].pc = "none"

\* C29: a long-lived peer task whose cancellation handle was signalled (a
\* message is queued on its shutdown_rx, sent by try_drop_peer) eventually
\* wakes and exits.
C29_PeerCancellationLiveness ==
    \A p \in PeerIds :
        (peer_tasks[p].pc # "none" /\ peer_tasks[p].shutdown_rx > 0)
            ~> (peer_tasks[p].pc = "exited")

\* main went through the start of a daemon: it created the tmpdir, called
\* bind and, bind having succeeded, called fork.
StartedDaemon ==
    /\ front.create_dir
    /\ front.bind # "none"
    /\ front.bind = "Ok" => front.fork # "none"
    /\ front.fork = "Ok" <=> "Server::run" \in front.run
\* main did none of it.
LeftDaemonAlone ==
    /\ ~front.create_dir
    /\ front.bind = "none"
    /\ front.fork = "none"
    /\ "Server::run" \notin front.run

C31_InvalidShareNameReturned ==
    \A msg \in ClientMessages :
        (msg.kind = "ShareShare" /\ msg.name = NoName /\ ShareNameOf(msg).res # "Ok")
            => LET out == Dispatch(State, msg)
               IN /\ out.res = "Err"
                  /\ out.st = State
                  /\ out.ev = <<>>

\* C32: CommonShareName parsing accepts exactly the texts of 1 to 60 bytes:
\* 60 is accepted, 61 and more are rejected with NameTooLong, and the empty
\* text is rejected.
C32_CommonShareNameLength ==
    names.parser = "CommonShareName" =>
        /\ names.out.res = "Ok" <=> Len(names.s) \in 1 .. MAX_SHARE_NAME_LENGTH
        /\ Len(names.s) > MAX_SHARE_NAME_LENGTH => names.out.res = "NameTooLong"
        /\ names.out.res = "Ok" => names.out.name = names.s

\* C33: IP:DEFAULT_PORT/NAME parses to the value IP/NAME parses to, with no
\* port stored; a port other than the default is kept; and a full share name
\* that parsed, formatted and parsed again, gives the value it gave first.
C33_FullShareNameCanonical ==
    /\ \A a \in AddrTexts, n \in NameTexts :
          LET plain == FullShareName_from_str(a \o "/" \o n)
              dflt == FullShareName_from_str(
                          a \o ":" \o to_string(NETWORK_PORT) \o "/" \o n)
          IN /\ dflt = plain
             /\ plain.res = "Ok" => plain.port = NoPort
    /\ (names.parser = "FullShareName" /\ names.out.res = "Ok") =>
          LET o == split_once(split_once(names.s, "/").left, ":")
          IN /\ o.some /\ u16_from_str(o.right).val # NETWORK_PORT
                  => names.out.port = u16_from_str(o.right).val
             /\ ~o.some => names.out.port = NoPort
    /\ (names.parser = "FullShareName" /\ names.text # NoText) =>
          names.again = names.out

\* C33 witness: "1.2.3.4:29284/Example" parsed to 1.2.3.4 without a port and
\* the name Example, was formatted as "1.2.3.4/Example", and that parsed to
\* the same value.
C33_Witness ==
    /\ names.parser = "FullShareName"
    /\ names.s = "1.2.3.4:" \o to_string(NETWORK_PORT) \o "/Example"
    /\ names.out = Parsed("Ok", "Full", <<1, 2, 3, 4>>, NoPort, "Example")
    /\ names.text = "1.2.3.4/Example"
    /\ names.again = names.out

\* C34 as stated: every text of at most 60 bytes - every common name - parses
\* as a ShareName to the Common variant, and the value formats back to
\* exactly that text.
C34_CommonNameRoundTrip_EveryName ==
    (names.parser = "ShareName" /\ CommonShareName_from_str(names.s).ok) =>
        /\ names.out.res = "Ok"
        /\ names.out.variant = "Common"
        /\ names.text # NoText => names.text = names.s

\* C34, amended: every text of at most 60 bytes that does not parse as a full
\* share name parses as a ShareName to the Common variant, and the value
\* formats back to exactly that text.
C34_CommonNameRoundTrip ==
    (/\ names.parser = "ShareName"
     /\ CommonShareName_from_str(names.s).ok
     /\ FullShareName_from_str(names.s).res # "Ok") =>
        /\ names.out.res = "Ok"
        /\ names.out.variant = "Common"
        /\ names.text # NoText => names.text = names.s

\* C34 witness: "256.1.1.1/a/b", which has a separator but no valid address
\* before it, parsed as a ShareName to the Common variant and formatted back
\* to itself.
C34_Witness ==
    /\ names.parser = "ShareName"
    /\ names.s = "256.1.1.1/a/b"
    /\ names.out.variant = "Common"
    /\ names.text = names.s
    /\ names.again = names.out

\* The moves ReadState makes: the cycle through a frame, and ShuttingDown from
\* the two states that read the inner stream.
ReadMoves ==
    {<<"Idle", "ReadingLen">>, <<"ReadingLen", "ReadingMessage">>,
     <<"ReadingMessage", "ServingPayload">>, <<"ServingPayload", "Idle">>,
     <<"ReadingLen", "ShuttingDown">>, <<"ReadingMessage", "ShuttingDown">>}

\* C35: read_state only moves Idle -> ReadingLen -> ReadingMessage ->
\* ServingPayload -> Idle, or from a state that reads the inner stream to
\* ShuttingDown on a read of 0 bytes; a poll_read that returns Pending or serves
\* part of a payload keeps the prefix bytes, the count of message bytes and the
\* payload offset it has reached, and the next call goes on from there: the
\* bytes taken from the inner stream are never beyond those written nor taken
\* twice, and the payload is served from where the last call stopped.
C35_ReadStateMachine ==
    /\ read_state.state = "ReadingLen" =>
          /\ read_state.offset < LENGTH_FIELD_LEN
          /\ read_state.offset <= CurrentFrame.written
          /\ read_state.buf = SubSeq(CurrentFrame.prefix, 1, read_state.offset)
    /\ read_state.state = "ReadingMessage" =>
          /\ read_state.message_len = CurrentFrame.message_len
          /\ read_state.offset <= read_state.message_len
          /\ read_position(read_state) <= CurrentFrame.written
    /\ read_state.state = "ServingPayload" =>
          /\ read_state.offset < read_state.payload.len
          /\ Delivered = read_state.payload.from + read_state.offset
    /\ read_state.state # "Handshake" =>
          \A out_len \in OutLens, at \in StopAt :
          \A eof \in (IF inner_closed THEN BOOLEAN ELSE {FALSE}) :
              LET l == PollReadLoop(out_len, at, eof)
                  o == poll_read(read_state, out_len, CurrentFrame, at, eof)
              IN /\ \A i \in 1 .. Len(l.path) - 1 :
                        <<l.path[i], l.path[i + 1]>> \in ReadMoves
                 /\ l.path[Len(l.path)] = l.r.state
                 /\ <<l.r, l.res, l.n, l.from>> = <<o.r, o.res, o.n, o.from>>
                 /\ "ShuttingDown" \in {l.path[i] : i \in 2 .. Len(l.path)}
                        => eof
                 /\ l.res = "Pending" =>
                        /\ l.r.state \in {"ReadingLen", "ReadingMessage"}
                        /\ read_position(l.r) >= read_position(read_state)
                        /\ l.r.payload = read_state.payload
                 /\ (l.res = "Ok" /\ l.r.state = "ServingPayload") =>
                        /\ l.r.offset = (IF read_state.state = "ServingPayload"
                                         THEN read_state.offset ELSE 0) + l.n
                        /\ l.from + l.n = l.r.payload.from + l.r.offset

\* C35 witness: a call returned Pending inside the message of the second
\* transport frame, after a payload was served in two parts.
C35_Witness ==
    /\ read_state.state = "ReadingMessage"
    /\ read_state.offset > 0
    /\ read_state.offset < read_state.message_len
    /\ read_state.frames >= 2
    /\ io.partial > 0
    /\ Delivered > 0

\* An end of the handshake waits in read_exact for bytes that are not there.
WaitsToRead(role) ==
    LET e == hs.side[role]
        in == hs.pipe[Peer(role)]
    IN \/ /\ e.pc = "loop"
          /\ ~is_handshake_finished(e.index)
          /\ ~is_my_turn(role, e.index)
          /\ Len(in.prefix) < LENGTH_FIELD_LEN
       \/ /\ e.pc = "read_exact(message)"
          /\ in.message < e.len

IsPrefix(s, t) == Len(s) <= Len(t) /\ s = SubSeq(t, 1, Len(s))

\* C36: over a reliable pipe the initiator writes first and the responder
\* reads first, each end alternates one framed write and one framed read, both
\* finish after two messages in all and enter transport mode with read and
\* write state Idle, and the two ends never both wait to read: until both are
\* in transport mode one of them can take a step.
C36_HandshakeProgress ==
    /\ IsPrefix(hs.side["initiator"].ops, <<"write", "read">>)
    /\ IsPrefix(hs.side["responder"].ops, <<"read", "write">>)
    /\ \A role \in HandshakeStates :
          LET e == hs.side[role]
          IN /\ e.pc = "read_exact(message)" =>
                    e.len = handshake_message_len(Peer(role))
             /\ e.pc = "transport" <=> e.read_state = "Idle"
             /\ e.pc = "transport" <=> e.write_state = "Idle"
             /\ e.pc = "transport" =>
                    /\ e.index = HandshakeMessages
                    /\ Len(e.ops) = HandshakeMessages
                    /\ hs.pipe[Peer(role)] = NoBytes
    /\ (\A role \in HandshakeStates : hs.side[role].pc = "transport") =>
          /\ Len(hs.side["initiator"].ops) + Len(hs.side["responder"].ops)
                = 2 * HandshakeMessages
          /\ \A role \in HandshakeStates : hs.pipe[role] = NoBytes
    /\ ~(WaitsToRead("initiator") /\ WaitsToRead("responder"))
    /\ (\A role \in HandshakeStates : hs.side[role].pc = "transport")
          \/ ENABLED HandshakeNext

\* C36 witness: both ends are in transport mode, the initiator having written
\* then read and the responder read then written.
C36_Witness ==
    /\ \A role \in HandshakeStates : hs.side[role].pc = "transport"
    /\ hs.side["initiator"].ops = <<"write", "read">>
    /\ hs.side["responder"].ops = <<"read", "write">>
    /\ hs.side["initiator"].len = DHLEN + TAG_LEN
    /\ hs.side["responder"].len = DHLEN + TAG_LEN

\* C37: when front-ends start at the same time on a cold or stale socket
\* path, none unlinks a socket file a live listener is bound to, at most one
\* daemon is started, and every front-end gets to its client: none ends in an
\* error.
C37_SingleDaemonPerSocket ==
    /\ \A p \in FrontEnds : ~startup.proc[p].removed_live
    /\ Cardinality({p \in FrontEnds : startup.proc[p].daemon}) <= 1
    /\ \A p \in FrontEnds : startup.proc[p].run # "error"

\* C38: no borrow of the State is held over an await: every handler that
\* waits for its response write holds no guard, so whichever handler runs
\* next, its borrow or borrow_mut finds the RefCell free and does not panic,
\* and the State a handler sees is the one a whole request left.
C38_NoBorrowAcrossAwait ==
    /\ \A c \in ClientIds : clients[c].held = "none"
    /\ \A c \in ClientIds, msg \in ClientMessages :
          clients[c].pc = "reading" =>
              LET b == run_borrows(handle_client_borrows(msg), "none",
                                   OthersHeld(c))
              IN ~b.panic /\ b.held = "none"
    /\ \A c \in ClientIds :
          clients[c].pc = "writing" =>
              LET b == run_borrows(handle_client_end_borrows, clients[c].held,
                                   OthersHeld(c))
              IN ~b.panic /\ b.held = "none"

\* C38 witness: one handler waits for the write of its Ls response, which it
\* built under a borrow, while another is about to dispatch a request that
\* takes borrow_mut.
C38_Witness ==
    \E c \in ClientIds, d \in ClientIds :
        /\ c # d
        /\ clients[c].pc = "writing" /\ clients[c].req = "Ls"
        /\ clients[d].pc = "reading"
        /\ shares # <<>>

\* C39: with a non-empty output buffer poll_read returns Ok(0) only at the end
\* of the stream: the call leaves the reading end in ShuttingDown, which it
\* was in already or entered because the inner stream returned 0 bytes during
\* the call; and from ShuttingDown every poll_read returns Ok(0) and changes
\* nothing.
C39_ZeroOnlyAtEndOfStream ==
    read_state.state \in {"Idle", "ReadingLen", "ReadingMessage",
                          "ServingPayload", "ShuttingDown"} =>
        \A out_len \in OutLens \ {0}, at \in StopAt,
           eof \in (IF inner_closed THEN BOOLEAN ELSE {FALSE}) :
            LET o == PollReadLoop(out_len, at, eof)
            IN /\ (o.res = "Ok" /\ o.n = 0) =>
                      /\ o.r.state = "ShuttingDown"
                      /\ read_state.state = "ShuttingDown" \/ eof
               /\ read_state.state = "ShuttingDown" =>
                      o.res = "Ok" /\ o.n = 0 /\ o.r = read_state

\* C40: poll_flush returns Ready(Ok) only when no frame is in flight, every
\* frame on the inner stream is there whole, and the inner stream holds no
\* unflushed bytes; and a waker stored by a pending flush belongs to a frame
\* in flight, whose completion or a close wakes it.
C40_FlushCompletion ==
    write_state.state \in {"Idle", "WritingMessage", "ShuttingDown"} =>
        LET o == poll_flush(write_state)
        IN /\ (o.res = "Ok" /\ write_state.state # "ShuttingDown") =>
                  /\ \A i \in 1 .. Len(wire) :
                        wire[i].written = LENGTH_FIELD_LEN + wire[i].message_len
                  /\ ~io.unflushed
           /\ write_state.write_clean_waker =>
                  write_state.state = "WritingMessage"
====
